---- MODULE Spec2Model ----
(***************************************************************************)
(* CodeBanter extension host: the message router of the WebSocket server   *)
(* and the handlers it dispatches to (getFileContent, modifyFile,          *)
(* createFile, renderPreview, getFileDiff, handleChatMessage with          *)
(* processAiResponseForFileOperations, testFileCreation).                  *)
(*                                                                         *)
(* Texts (paths, file contents, model responses) are sequences of          *)
(* one-character strings, so that path.join, path.extname, trim and the    *)
(* file-block patterns are computed on characters as the code does.        *)
(*                                                                         *)
(* The editor (open documents, disk, workspace folders) is the             *)
(* environment: its state is part of the model and the user's open, close  *)
(* and save are actions.  A handler is one action: the model takes the     *)
(* handlers of one connection one at a time.                               *)
(***************************************************************************)
EXTENDS Integers, Sequences, FiniteSets, TLC

(***************************************************************************)
(* Characters and the node `path` functions (posix).                       *)
(***************************************************************************)
Lower == <<"a","b","c","d","e","f","g","h","i","j","k","l","m",
           "n","o","p","q","r","s","t","u","v","w","x","y","z">>
Upper == <<"A","B","C","D","E","F","G","H","I","J","K","L","M",
           "N","O","P","Q","R","S","T","U","V","W","X","Y","Z">>
Digits == {"0","1","2","3","4","5","6","7","8","9"}

Range(f) == {f[i] : i \in DOMAIN f}

\* \w of the patterns: [A-Za-z0-9_]
WordChars == Range(Lower) \cup Range(Upper) \cup Digits \cup {"_"}

IsWord(ch) == ch \in WordChars

\* \s of the patterns and of String.prototype.trim
IsSpace(ch) == ch \in {" ", "\n", "\t", "\r"}

\* String.prototype.toLowerCase on one character
LowerChar(ch) ==
    IF \E i \in 1..26 : Upper[i] = ch
    THEN Lower[CHOOSE i \in 1..26 : Upper[i] = ch]
    ELSE ch

ToLowerCase(t) == [i \in 1..Len(t) |-> LowerChar(t[i])]

\* String.prototype.trim
RECURSIVE TrimStart(_)
TrimStart(t) == IF t # <<>> /\ IsSpace(Head(t)) THEN TrimStart(Tail(t)) ELSE t

RECURSIVE TrimEnd(_)
TrimEnd(t) ==
    IF t # <<>> /\ IsSpace(t[Len(t)]) THEN TrimEnd(SubSeq(t, 1, Len(t) - 1)) ELSE t

Trim(t) == TrimEnd(TrimStart(t))

\* String.prototype.split(path.sep)
RECURSIVE SplitSep(_, _)
SplitSep(t, cur) ==
    IF t = <<>> THEN <<cur>>
    ELSE IF Head(t) = "/" THEN <<cur>> \o SplitSep(Tail(t), <<>>)
    ELSE SplitSep(Tail(t), Append(cur, Head(t)))

Split(t) == SplitSep(t, <<>>)

\* the segments of a path after path.normalize: empty and "." segments are
\* dropped, ".." removes the segment before it
RECURSIVE NormSegs(_, _)
NormSegs(parts, acc) ==
    IF parts = <<>> THEN acc
    ELSE IF Head(parts) = <<>> \/ Head(parts) = <<".">> THEN NormSegs(Tail(parts), acc)
    ELSE IF Head(parts) = <<".", ".">>
         THEN NormSegs(Tail(parts), IF acc = <<>> THEN acc ELSE SubSeq(acc, 1, Len(acc) - 1))
    ELSE NormSegs(Tail(parts), Append(acc, Head(parts)))

RECURSIVE JoinSegs(_)
JoinSegs(segs) ==
    IF segs = <<>> THEN <<>>
    ELSE IF Len(segs) = 1 THEN Head(segs)
    ELSE Head(segs) \o <<"/">> \o JoinSegs(Tail(segs))

IsAbsolute(p) == p # <<>> /\ p[1] = "/"

\* path.normalize
Normalize(p) ==
    LET body == JoinSegs(NormSegs(Split(p), <<>>))
    IN  IF IsAbsolute(p) THEN <<"/">> \o body
        ELSE IF body = <<>> THEN <<".">> ELSE body

\* path.join(a, b)
PathJoin(a, b) ==
    IF a = <<>> THEN Normalize(b)
    ELSE IF b = <<>> THEN Normalize(a)
    ELSE Normalize(a \o <<"/">> \o b)

\* index of the last "/" of p, 0 if none
LastSlash(p) ==
    IF \E i \in 1..Len(p) : p[i] = "/"
    THEN CHOOSE i \in 1..Len(p) : p[i] = "/" /\ \A j \in (i + 1)..Len(p) : p[j] # "/"
    ELSE 0

\* path.dirname (of a normalized path without trailing separator)
Dirname(p) ==
    LET k == LastSlash(p)
    IN  IF k = 0 THEN <<".">>
        ELSE IF k = 1 THEN <<"/">>
        ELSE SubSeq(p, 1, k - 1)

\* path.basename
Basename(p) == SubSeq(p, LastSlash(p) + 1, Len(p))

\* path.extname: from the last "." of the basename, "" when there is none or
\* when the basename starts with its only "."
Extname(p) ==
    LET b == Basename(p)
        dots == {i \in 1..Len(b) : b[i] = "."}
    IN  IF dots = {} THEN <<>>
        ELSE LET k == CHOOSE i \in dots : \A j \in dots : j <= i
             IN  IF k = 1 THEN <<>> ELSE SubSeq(b, k, Len(b))

\* vscode.Uri.file(p).fsPath: a path without leading separator gets one
UriFile(p) == IF IsAbsolute(p) THEN p ELSE <<"/">> \o p


(***************************************************************************)
(* The universe of one run: the workspace root, the paths and contents a   *)
(* client names in its requests.                                           *)
(***************************************************************************)
Root == <<"/", "w">>

PathA == <<"/", "w", "/", "a", ".", "j", "s">>
PathB == <<"/", "w", "/", "s", "/", "b", ".", "c", "s", "s">>
PathH == <<"/", "w", "/", "i", ".", "H", "T", "M", "L">>
PathJ == <<"/", "w", "/", "c", ".", "j", "s", "o", "n">>
PathT == <<"/", "w", "/", "n", ".", "t", "x", "t">>
PathFoo == <<"/", "w", "/", "f", "o", "o", ".", "j", "s">>
PathD == <<"/", "w", "/", "s", "/", "t", "/", "d", ".", "j", "s">>
PathC == <<"/", "w", "/", "b", ".", "C", "s", "s">>
PathK == <<"/", "w", "/", "k", ".", "J", "s", "o", "n">>
PathV == <<"/", "w", "/", "v", ".", "T", "S", "X">>

Empty == <<>>
TextX == <<"x">>
TextY == <<"7">>

\* a Map.set / a file write: f with k bound to v
Put(f, k, v) == [x \in DOMAIN f \cup {k} |-> IF x = k THEN v ELSE f[x]]

(***************************************************************************)
(* State.                                                                  *)
(*   fs, dirs              the disk: file contents by path, directories    *)
(*   docs                  vscode.workspace.textDocuments: text by path    *)
(*   originalFileContents  the snapshot Map of the extension               *)
(*   workspaceFolders      vscode.workspace.workspaceFolders (root paths)  *)
(*   devServer             the module variable devServer                   *)
(*   server, wss           the HTTP server and the WebSocket server made   *)
(*                         by startServer: "open" until they are closed    *)
(*   devProcs              the number of webpack-dev-server processes      *)
(*                         spawned by startDevServer that are running      *)
(*   faults                paths on which the file system refuses an       *)
(*                         operation (fixed for a run)                     *)
(*   watcher               the change events of the FileSystemWatcher that *)
(*                         are not yet delivered: the path, and who wrote  *)
(*                         the file (the type of the request, or "editor").*)
(*                         The events of the latest writes are followed:   *)
(*                         one still pending when a later handler or save  *)
(*                         has run is not followed further.                *)
(*   wsOpen                the client's WebSocket is connected             *)
(*   reqPaths              the paths the client names in its requests and  *)
(*                         the user opens in the editor (fixed for a run)  *)
(*   hist                  the last handled messages, newest last: the     *)
(*                         message, the state before it, and the trace of  *)
(*                         what its handler did (sends, writes, edits)     *)
(*   running               the handlers that are followed await by await:  *)
(*                         the message of each, where it stands, and what  *)
(*                         its read returned.  Empty in the runs in which  *)
(*                         a handler is one step.                          *)
(***************************************************************************)
VARIABLES fs, dirs, docs, originalFileContents, workspaceFolders, devServer,
          server, wss, devProcs, faults, watcher, wsOpen, reqPaths, hist, running

vars == <<fs, dirs, docs, originalFileContents, workspaceFolders, devServer,
          server, wss, devProcs, faults, watcher, wsOpen, reqPaths, hist, running>>

\* the part of the state a handler reads and writes, with the trace `tr` of
\* its effects in program order and the paths `changed` whose change on disk
\* the file system watcher will report
World == [fs |-> fs, dirs |-> dirs, docs |-> docs, snap |-> originalFileContents,
          procs |-> devProcs, tr |-> <<>>, changed |-> {}]

Send(W, m) == [W EXCEPT !.tr = Append(@, [op |-> "send", msg |-> m])]

Notify(W) == [W EXCEPT !.tr = Append(@, [op |-> "notify"])]

\* the notification of modifyFile, line 723, which shows the description
NotifyModified(W, description) ==
    [W EXCEPT !.tr = Append(@, [op |-> "notify", description |-> description])]

ErrorMsg(kind, about) == [type |-> "error", message |-> kind, about |-> about]

\* the messages a trace sent, in order
RECURSIVE Sent(_)
Sent(tr) ==
    IF tr = <<>> THEN <<>>
    ELSE IF Head(tr).op = "send" THEN <<Head(tr).msg>> \o Sent(Tail(tr))
    ELSE Sent(Tail(tr))

\* the proper ancestors of a path, as paths
Ancestors(p) == {SubSeq(p, 1, i - 1) : i \in {j \in 2..Len(p) : p[j] = "/"}}

(***************************************************************************)
(* vscode.workspace.fs                                                     *)
(***************************************************************************)
\* fs.stat resolves for a file and for a directory
StatOk(W, p) == p \in DOMAIN W.fs \/ p \in W.dirs \/ p = <<"/">>

ReadOk(W, p) == p \in DOMAIN W.fs /\ p \notin faults.noRead

\* fs.writeFile rejects a directory, a path under a file, a refused path
WriteOk(W, p) ==
    /\ p \notin W.dirs
    /\ p \notin faults.noWrite
    /\ Ancestors(p) \cap DOMAIN W.fs = {}

\* createFileSystemWatcher('**/*'), line 69: the files under a workspace folder
Watched(p) == \E i \in DOMAIN workspaceFolders : workspaceFolders[i] \in Ancestors(p)

\* fs.writeFile: the whole content; missing parent directories are made.  A
\* write to a watched file that exists is a change the watcher reports
\* (onDidChange, lines 71-74); a new file is a creation, which has no listener
WriteFile(W, p, c) ==
    [W EXCEPT !.fs = Put(@, p, c),
              !.dirs = @ \cup Ancestors(p),
              !.changed = IF p \in DOMAIN W.fs /\ Watched(p) THEN @ \cup {p} ELSE @,
              !.tr = Append(@, [op |-> "writeFile", path |-> p, content |-> c])]

MkdirOk(W, d) == d \notin faults.noMkdir /\ Ancestors(d) \cap DOMAIN W.fs = {}

CreateDirectory(W, d) ==
    [W EXCEPT !.dirs = @ \cup {d} \cup Ancestors(d),
              !.tr = Append(@, [op |-> "createDirectory", path |-> d])]

\* workspace.applyEdit with one replace of the whole document
ApplyEditOk(W, p) == p \notin faults.noEdit

ApplyEdit(W, p, c) ==
    [W EXCEPT !.docs = Put(@, p, c),
              !.tr = Append(@, [op |-> "applyEdit", path |-> p, content |-> c])]


(***************************************************************************)
(* Handlers.  Each takes the world before and returns the world after,     *)
(* with the trace of its sends and effects.                                *)
(***************************************************************************)

\* sendWorkspaceInfo
SendWorkspaceInfo(W) ==
    Send(W, [type |-> "workspaceInfo",
             folders |-> workspaceFolders,
             openFiles |-> DOMAIN W.docs])

\* getFileContent: the text of the open document, else of the file on disk;
\* both branches store it in originalFileContents with Map.set
GetFileContent(W, filePath) ==
    IF filePath \notin DOMAIN W.docs
    THEN IF ReadOk(W, filePath)
         THEN LET text == W.fs[filePath]
                  W1 == [W EXCEPT !.snap = Put(@, filePath, text)]
              IN  Send(W1, [type |-> "fileContent", path |-> filePath,
                            name |-> Basename(filePath), content |-> text])
         ELSE Send(W, ErrorMsg("Error getting file content: Failed to read file", filePath))
    ELSE LET content == W.docs[filePath]
             W1 == [W EXCEPT !.snap = Put(@, filePath, content)]
         IN  Send(W1, [type |-> "fileContent", path |-> filePath,
                       name |-> Basename(filePath), content |-> content])

\* modifyFile, lines 685-698: the snapshot is stored only if the Map has no
\* entry for the path; a failed read is logged and the handler goes on
StoreOriginal(W, filePath) ==
    IF filePath \in DOMAIN W.snap THEN W
    ELSE IF filePath \in DOMAIN W.docs
         THEN [W EXCEPT !.snap = Put(@, filePath, W.docs[filePath])]
    ELSE IF ReadOk(W, filePath)
         THEN [W EXCEPT !.snap = Put(@, filePath, W.fs[filePath])]
    ELSE W

\* lines 700-730 writing the file on disk as well as editing the open
\* document: a variant with two write paths
WriteModifiedBothPaths(W, filePath, content, description) ==
    IF filePath \in DOMAIN W.docs
    THEN IF ApplyEditOk(W, filePath)
         THEN Send(NotifyModified(WriteFile(ApplyEdit(W, filePath, content),
                                            filePath, content), description),
                   [type |-> "fileModified", path |-> filePath, success |-> TRUE])
         ELSE Send(W, ErrorMsg("Error modifying file: Failed to apply edit", filePath))
    ELSE IF WriteOk(W, filePath)
         THEN Send(NotifyModified(WriteFile(W, filePath, content), description),
                   [type |-> "fileModified", path |-> filePath, success |-> TRUE])
         ELSE Send(W, ErrorMsg("Error modifying file: write failed", filePath))

\* modifyFile, lines 700-730, with the snapshot already stored in W
WriteModified(W, filePath, content, description) ==
    IF filePath \in DOMAIN W.docs
    THEN IF ApplyEditOk(W, filePath)
         THEN Send(NotifyModified(ApplyEdit(W, filePath, content), description),
                   [type |-> "fileModified", path |-> filePath, success |-> TRUE])
         ELSE Send(W, ErrorMsg("Error modifying file: Failed to apply edit", filePath))
    ELSE IF WriteOk(W, filePath)
         THEN Send(NotifyModified(WriteFile(W, filePath, content), description),
                   [type |-> "fileModified", path |-> filePath, success |-> TRUE])
         ELSE Send(W, ErrorMsg("Error modifying file: write failed", filePath))

\* modifyFile without the stat of lines 675-683: a variant that writes to a
\* path where nothing exists
ModifyFileUnchecked(W, filePath, content, description) ==
    WriteModified(StoreOriginal(W, filePath), filePath, content, description)

\* modifyFile storing the snapshot after the write, from the new content: a
\* variant in which the baseline follows the modification
ModifyFileSnapshotAfter(W, filePath, content, description) ==
    IF ~StatOk(W, filePath)
    THEN Send(W, ErrorMsg("Error modifying file: File does not exist", filePath))
    ELSE [WriteModified(W, filePath, content, description)
            EXCEPT !.snap = Put(@, filePath, content)]

\* modifyFile giving up when it cannot store the original content: a variant
\* in which the failure of the read of line 692 reaches the outer catch
ModifyFileCaptureRequired(W, filePath, content, description) ==
    IF ~StatOk(W, filePath)
    THEN Send(W, ErrorMsg("Error modifying file: File does not exist", filePath))
    ELSE IF /\ filePath \notin DOMAIN W.snap
            /\ filePath \notin DOMAIN W.docs
            /\ ~ReadOk(W, filePath)
    THEN Send(W, ErrorMsg("Error modifying file: Failed to read file", filePath))
    ELSE WriteModified(StoreOriginal(W, filePath), filePath, content, description)

\* modifyFile
ModifyFile(W, filePath, content, description) ==
    IF ~StatOk(W, filePath)
    THEN Send(W, ErrorMsg("Error modifying file: File does not exist", filePath))
    ELSE WriteModified(StoreOriginal(W, filePath), filePath, content, description)

\* createFile, lines 764-776: the loop over the parts of dirPath.  currentPath
\* is built without a leading separator; Uri.file supplies it.  A rejected
\* createDirectory is thrown from inside the catch block of the stat, so it
\* leaves the loop: the result carries `threw`.
RECURSIVE MakeDirs(_, _, _)
MakeDir(W, parts, cur, uri) ==
    IF StatOk(W, uri) THEN MakeDirs(W, parts, cur)
    ELSE IF MkdirOk(W, uri) THEN MakeDirs(CreateDirectory(W, uri), parts, cur)
    ELSE [W |-> W, threw |-> TRUE]

NextPath(W, parts, cur) == MakeDir(W, parts, cur, UriFile(cur))

MakeDirs(W, parts, currentPath) ==
    IF parts = <<>> THEN [W |-> W, threw |-> FALSE]
    ELSE IF Head(parts) = <<>> THEN MakeDirs(W, Tail(parts), currentPath)
    ELSE NextPath(W, Tail(parts),
                  IF currentPath # <<>> THEN PathJoin(currentPath, Head(parts))
                  ELSE Head(parts))

\* lines 779-798 sending fileCreated whether the write succeeded or not: a
\* variant that acknowledges a file it has not written
WriteCreatedAlwaysAcked(made, filePath, content) ==
    IF made.threw
    THEN Send(made.W, ErrorMsg("Error creating file: createDirectory failed", filePath))
    ELSE IF WriteOk(made.W, filePath)
    THEN Send(Notify(WriteFile(made.W, filePath, content)),
              [type |-> "fileCreated", path |-> filePath, success |-> TRUE])
    ELSE Send(made.W, [type |-> "fileCreated", path |-> filePath, success |-> TRUE])

\* createFile, lines 779-798, after the directory loop
WriteCreated(made, filePath, content) ==
    IF made.threw
    THEN Send(made.W, ErrorMsg("Error creating file: createDirectory failed", filePath))
    ELSE IF WriteOk(made.W, filePath)
    THEN Send(Notify(WriteFile(made.W, filePath, content)),
              [type |-> "fileCreated", path |-> filePath, success |-> TRUE])
    ELSE Send(made.W, ErrorMsg("Error creating file: write failed", filePath))

\* lines 756-777 making the directory of the file in one call, whatever is
\* above it: a variant without the loop over the parts
EnsureDirLeafOnly(W, dirPath) ==
    IF StatOk(W, UriFile(dirPath)) THEN [W |-> W, threw |-> FALSE]
    ELSE [W |-> CreateDirectory(W, UriFile(dirPath)), threw |-> FALSE]

\* lines 756-777: the directories are made only if the stat of dirPath fails
EnsureDir(W, dirPath) ==
    IF StatOk(W, UriFile(dirPath)) THEN [W |-> W, threw |-> FALSE]
    ELSE MakeDirs(W, Split(dirPath), <<>>)

\* createFile.  The "File already exists" error of line 751 is thrown inside
\* the try whose catch (line 752) is empty, so either outcome of the stat
\* continues with the directory check.
CreateFile(W, filePath, content) ==
    WriteCreated(EnsureDir(W, Dirname(filePath)), filePath, content)

\* getFileDiff taking a missing baseline for the empty text: a variant that
\* answers with a diff where the Map has no entry
GetFileDiffEmptyBaseline(W, filePath) ==
    IF filePath \in DOMAIN W.docs
    THEN Send(W, [type |-> "diff", path |-> filePath, name |-> Basename(filePath),
                  originalContent |-> IF filePath \in DOMAIN W.snap THEN W.snap[filePath]
                                      ELSE <<>>,
                  currentContent |-> W.docs[filePath]])
    ELSE IF ReadOk(W, filePath)
    THEN Send(W, [type |-> "diff", path |-> filePath, name |-> Basename(filePath),
                  originalContent |-> IF filePath \in DOMAIN W.snap THEN W.snap[filePath]
                                      ELSE <<>>,
                  currentContent |-> W.fs[filePath]])
    ELSE Send(W, ErrorMsg("Error generating diff: Failed to read current file", filePath))

\* getFileDiff: `!originalContent` holds for a missing entry and for ""
GetFileDiff(W, filePath) ==
    IF filePath \notin DOMAIN W.snap \/ W.snap[filePath] = <<>>
    THEN Send(W, ErrorMsg("Error generating diff: No original content stored", filePath))
    ELSE IF filePath \in DOMAIN W.docs
    THEN Send(W, [type |-> "diff", path |-> filePath, name |-> Basename(filePath),
                  originalContent |-> W.snap[filePath],
                  currentContent |-> W.docs[filePath]])
    ELSE IF ReadOk(W, filePath)
    THEN Send(W, [type |-> "diff", path |-> filePath, name |-> Basename(filePath),
                  originalContent |-> W.snap[filePath],
                  currentContent |-> W.fs[filePath]])
    ELSE Send(W, ErrorMsg("Error generating diff: Failed to read current file", filePath))

\* testFileCreation: writes test-file.txt under the first workspace folder
TestFileText == <<"This is a test file created by CodeBanter.">>

TestFileName == <<"t", "e", "s", "t", "-", "f", "i", "l", "e", ".", "t", "x", "t">>

TestFileCreation(W) ==
    IF workspaceFolders = <<>>
    THEN Send(W, ErrorMsg("No workspace folder is open", <<>>))
    ELSE LET testFilePath == PathJoin(workspaceFolders[1], TestFileName)
         IN  IF WriteOk(W, testFilePath)
             THEN Send(WriteFile(W, testFilePath, TestFileText),
                       [type |-> "chat", message |-> "Test file created successfully",
                        path |-> testFilePath])
             ELSE Send(W, ErrorMsg("Error creating test file", testFilePath))


(***************************************************************************)
(* JSON.parse as a recogniser, and JSON.stringify(value, null, 2) of a     *)
(* text that parses.  An index is a position in the text; 0 is "no parse". *)
(***************************************************************************)
At(t, i) == IF i >= 1 /\ i <= Len(t) THEN t[i] ELSE "EOF"

RECURSIVE SkipWs(_, _)
SkipWs(t, i) == IF At(t, i) \in {" ", "\n", "\t", "\r"} THEN SkipWs(t, i + 1) ELSE i

RECURSIVE SkipDigits(_, _)
SkipDigits(t, i) == IF At(t, i) \in Digits THEN SkipDigits(t, i + 1) ELSE i

\* the index after the closing quote of the string whose body starts at i
RECURSIVE StringEnd(_, _)
StringEnd(t, i) ==
    IF At(t, i) = "\"" THEN i + 1
    ELSE IF At(t, i) \in {"EOF", "\n", "\t", "\r"} THEN 0
    ELSE IF At(t, i) = "\\"
         THEN IF At(t, i + 1) \in {"\"", "\\", "/", "b", "f", "n", "r", "t"}
              THEN StringEnd(t, i + 2) ELSE 0
    ELSE StringEnd(t, i + 1)

\* the optional exponent at c
Exponent(t, c, d) ==
    IF At(t, c) \notin {"e", "E"} THEN c
    ELSE IF At(t, d) \in Digits THEN SkipDigits(t, d) ELSE 0

\* the optional fraction at b, then the exponent
Fraction(t, b) ==
    IF b = 0 THEN 0
    ELSE IF At(t, b) # "." THEN Exponent(t, b, IF At(t, b + 1) \in {"+", "-"} THEN b + 2 ELSE b + 1)
    ELSE IF At(t, b + 1) \notin Digits THEN 0
    ELSE Exponent(t, SkipDigits(t, b + 1),
                  IF At(t, SkipDigits(t, b + 1) + 1) \in {"+", "-"}
                  THEN SkipDigits(t, b + 1) + 2 ELSE SkipDigits(t, b + 1) + 1)

\* the integer part at a: 0, or a digit run that does not start with 0
IntPart(t, a) ==
    Fraction(t, IF At(t, a) = "0" THEN a + 1
                ELSE IF At(t, a) \in Digits THEN SkipDigits(t, a) ELSE 0)

ParseNumber(t, i) == IntPart(t, IF At(t, i) = "-" THEN i + 1 ELSE i)

ParseLiteral(t, i, word) ==
    IF i + Len(word) - 1 <= Len(t) /\ SubSeq(t, i, i + Len(word) - 1) = word
    THEN i + Len(word) ELSE 0

Literals == [t |-> <<"t", "r", "u", "e">>, f |-> <<"f", "a", "l", "s", "e">>,
             n |-> <<"n", "u", "l", "l">>]

RECURSIVE ParseValue(_, _)
RECURSIVE ParseItems(_, _, _)

\* after an item that ends before n: "," and the next item, or the closer
AfterItem(t, n, close) ==
    IF n = 0 THEN 0
    ELSE IF At(t, n) = "," THEN ParseItems(t, n + 1, close)
    ELSE IF At(t, n) = close THEN n + 1
    ELSE 0

SkipWsOr0(t, v) == IF v = 0 THEN 0 ELSE SkipWs(t, v)

\* the value of a member after its key, whose closing quote ends before ke
AfterKey(t, col) ==
    IF col # 0 /\ At(t, col) = ":" THEN ParseValue(t, SkipWs(t, col + 1)) ELSE 0

\* one item at k: a member "key" : value of an object, an element of an array
ItemAt(t, k, close) ==
    IF close = "]" THEN ParseValue(t, k)
    ELSE IF At(t, k) = "\"" THEN AfterKey(t, SkipWsOr0(t, StringEnd(t, k + 1)))
    ELSE 0

\* after "{", "[" or ",": an item, then "," or the closer
ParseItems(t, i, close) == AfterItem(t, SkipWsOr0(t, ItemAt(t, SkipWs(t, i), close)), close)

\* after "{" or "[": the closer at once, or the items
Container(t, i, close) ==
    IF At(t, SkipWs(t, i)) = close THEN SkipWs(t, i) + 1 ELSE ParseItems(t, i, close)

ParseValue(t, i) ==
    IF At(t, i) \in {"{", "["} THEN Container(t, i + 1, IF At(t, i) = "{" THEN "}" ELSE "]")
    ELSE IF At(t, i) = "\"" THEN StringEnd(t, i + 1)
    ELSE IF At(t, i) \in {"t", "f", "n"} THEN ParseLiteral(t, i, Literals[At(t, i)])
    ELSE ParseNumber(t, i)

\* the text ends after the value that ends before v
EndsAt(t, v) == v # 0 /\ SkipWs(t, v) = Len(t) + 1

\* JSON.parse(t) does not throw
JSONParseOk(t) == EndsAt(t, ParseValue(t, SkipWs(t, 1)))

Indent(depth) == [k \in 1..(2 * depth) |-> " "]

\* JSON.stringify(JSON.parse(t), null, 2) for a text that parses and whose
\* numbers and strings are in the form JSON.stringify prints: white space
\* outside strings is dropped, a member or element starts a line indented by
\* two spaces per level, ": " follows a key, an empty object or array stays
\* "{}" or "[]"
RECURSIVE Pretty(_, _, _, _)
PrettyChar(t, i, depth, inString, ch, next) ==
    IF inString
    THEN IF ch = "\\" THEN <<ch, At(t, i + 1)>> \o Pretty(t, i + 2, depth, TRUE)
         ELSE <<ch>> \o Pretty(t, i + 1, depth, ch # "\"")
    ELSE IF ch \in {" ", "\n", "\t", "\r"} THEN Pretty(t, i + 1, depth, FALSE)
    ELSE IF ch \in {"{", "["}
         THEN IF At(t, next) \in {"}", "]"}
              THEN <<ch, At(t, next)>> \o Pretty(t, next + 1, depth, FALSE)
              ELSE <<ch, "\n">> \o Indent(depth + 1) \o Pretty(t, i + 1, depth + 1, FALSE)
    ELSE IF ch \in {"}", "]"}
         THEN <<"\n">> \o Indent(depth - 1) \o <<ch>> \o Pretty(t, i + 1, depth - 1, FALSE)
    ELSE IF ch = "," THEN <<ch, "\n">> \o Indent(depth) \o Pretty(t, i + 1, depth, FALSE)
    ELSE IF ch = ":" THEN <<ch, " ">> \o Pretty(t, i + 1, depth, FALSE)
    ELSE <<ch>> \o Pretty(t, i + 1, depth, ch = "\"")

Pretty(t, i, depth, inString) ==
    IF i > Len(t) THEN <<>>
    ELSE PrettyChar(t, i, depth, inString, t[i], SkipWs(t, i + 1))

JSONStringify2(t) == Pretty(t, 1, 0, FALSE)


(***************************************************************************)
(* renderPreview                                                           *)
(***************************************************************************)
\* escapeHtml, lines 617-624.  The fourth replace is written
\* .replace(/"//g, '&quot;'): the regular expression /"/ divided by g, and no
\* g is declared, so evaluating the argument throws a ReferenceError on every
\* call, after the first three replaces and before any text is returned.
EscapeHtml(text) == [threw |-> TRUE, value |-> <<>>]

ScriptExts == {<<".", "t", "s", "x">>, <<".", "j", "s", "x">>, <<".", "t", "s">>,
               <<".", "j", "s">>}

\* the fixed parts of the generated documents, one token each
ShellHead == <<"<html><body><iframe src=\"http://localhost:">>
ShellTail == <<"\" id=\"devServerFrame\"></iframe></body></html>">>
CssHead == <<"<html><head><style>">>
CssTail == <<"</style></head><body><h1/><p/><button/><a/><div class=\"box\"/></body></html>">>
JsonHead == <<"<html><body><pre id=\"json-container\">">>
JsonTail == <<"</pre><script>syntaxHighlight</script></body></html>">>
WarnHead == <<"<html><body><div class=\"warning\">Warning: Invalid JSON format - ">>
WarnMid == <<"</div><pre>">>
WarnTail == <<"</pre></body></html>">>

DevServerPort == <<"3", "0", "0", "1">>

Preview(filePath, html) ==
    [type |-> "preview", path |-> filePath, name |-> Basename(filePath),
     content |-> html, previewType |-> "html"]

\* lines 484-598.  formatted is escapeHtml of the pretty-printed text, or
\* threw when JSON.parse or that escapeHtml throws; the catch block then
\* calls escapeHtml on jsonError.message and on the raw content
RenderJsonWith(W, filePath, formatted, message, raw) ==
    IF ~formatted.threw
    THEN Send(W, Preview(filePath, JsonHead \o formatted.value \o JsonTail))
    ELSE IF ~message.threw /\ ~raw.threw
    THEN Send(W, Preview(filePath, WarnHead \o message.value \o WarnMid
                                   \o raw.value \o WarnTail))
    ELSE Send(W, ErrorMsg("Error rendering preview: ReferenceError", filePath))

RenderJson(W, filePath, content) ==
    RenderJsonWith(W, filePath,
                   IF JSONParseOk(content) THEN EscapeHtml(JSONStringify2(content))
                   ELSE [threw |-> TRUE, value |-> <<>>],
                   EscapeHtml(<<"jsonError.message">>),
                   EscapeHtml(content))

(***************************************************************************)
(* startDevServer, lines 801-905.  The process it spawns is held in the    *)
(* local devServerProcess and returned; the module variable devServer is   *)
(* assigned nowhere but to null (lines 15, 874, 911).                      *)
(***************************************************************************)
PackageJsonName == <<"p", "a", "c", "k", "a", "g", "e", ".", "j", "s", "o", "n">>

PublicName == <<"p", "u", "b", "l", "i", "c">>

IndexHtmlName == <<"i", "n", "d", "e", "x", ".", "h", "t", "m", "l">>

\* lines 818-850: without a package.json under the root, one is written with
\* the synchronous fs of Node, and public/index.html beside it
Scaffold(W, rootPath) ==
    IF StatOk(W, PathJoin(rootPath, PackageJsonName)) THEN W
    ELSE [W EXCEPT !.fs = Put(Put(@, PathJoin(rootPath, PackageJsonName),
                                  <<"codebanter-preview">>),
                              PathJoin(PathJoin(rootPath, PublicName), IndexHtmlName),
                              <<"<div id=\"root\"></div>">>),
                   !.dirs = @ \cup {PathJoin(rootPath, PublicName)},
                   !.tr = Append(@, [op |-> "writeFileSync"])]

\* lines 852-862: child_process.spawn of webpack-dev-server
Spawn(W) == [W EXCEPT !.procs = @ + 1, !.tr = Append(@, [op |-> "spawn"])]

\* startDevServer: nothing if devServer is set; without a workspace folder,
\* or if the scaffold cannot be written, the catch of line 900 shows an error
\* and returns null; else the process is spawned and, three seconds later,
\* the client is told (lines 887-896)
StartDevServer(W) ==
    IF devServer # "null" THEN W
    ELSE IF workspaceFolders = <<>> THEN Notify(W)
    ELSE IF /\ ~StatOk(W, PathJoin(workspaceFolders[1], PackageJsonName))
            /\ ~WriteOk(W, PathJoin(workspaceFolders[1], PackageJsonName))
         THEN Notify(W)
    ELSE Send(Spawn(Scaffold(W, workspaceFolders[1])),
              [type |-> "devServerStarted", url |-> DevServerPort])

\* whether the name `context` of line 412 resolves: renderPreview has the
\* parameters ws and filePath (line 387), its body declares no context, and
\* the module declares server, wss, originalFileContents, devServer and
\* devServerPort (lines 12-16); the parameters named context belong to
\* activate, startServer and startDevServer
ContextInScope == FALSE

\* lines 408-606: the dispatch on the lower-cased extension.  Line 412
\* passes `context` to startDevServer: the argument is evaluated before the
\* call, and as the name does not resolve that throws a ReferenceError, which
\* the catch of line 607 turns into an error message; startDevServer is not
\* entered.  devServer is never set, so line 412 is reached on every script
\* preview.  With a devServer, or once startDevServer has returned, the
\* shell is sent and the handler returns (line 439).
RenderByExt(W, filePath, ext, content) ==
    IF ext \in ScriptExts
    THEN IF devServer = "null" /\ ~ContextInScope
         THEN Send(W, ErrorMsg("Error rendering preview: ReferenceError", filePath))
         ELSE Send(IF devServer = "null" THEN StartDevServer(W) ELSE W,
                   Preview(filePath, ShellHead \o DevServerPort \o ShellTail))
    ELSE IF ext = <<".", "h", "t", "m", "l">>
         THEN Send(W, Preview(filePath, content))
    ELSE IF ext = <<".", "c", "s", "s">>
         THEN Send(W, Preview(filePath, CssHead \o content \o CssTail))
    ELSE IF ext = <<".", "j", "s", "o", "n">>
         THEN RenderJson(W, filePath, content)
    ELSE Send(W, ErrorMsg("Preview not supported for file type", ext))

\* lines 394-406: the text of the open document, else of the file on disk
ReadContent(W, filePath) ==
    IF filePath \in DOMAIN W.docs THEN [ok |-> TRUE, text |-> W.docs[filePath]]
    ELSE IF ReadOk(W, filePath) THEN [ok |-> TRUE, text |-> W.fs[filePath]]
    ELSE [ok |-> FALSE]

RenderRead(W, filePath, read) ==
    IF read.ok THEN RenderByExt(W, filePath, ToLowerCase(Extname(filePath)), read.text)
    ELSE Send(W, ErrorMsg("Error rendering preview: Failed to read file", filePath))

\* renderPreview: the content is read first
RenderPreview(W, filePath) == RenderRead(W, filePath, ReadContent(W, filePath))

(***************************************************************************)
(* The file-block patterns of processAiResponseForFileOperations, lines    *)
(* 971-980, matched as RegExp.prototype.exec matches them: the leftmost    *)
(* start, a lazy quantifier taking the fewest characters and a greedy one  *)
(* the most for which the rest of the pattern still matches.               *)
(***************************************************************************)
Min(S) == CHOOSE x \in S : \A y \in S : x <= y

RECURSIVE SpaceRunEnd(_, _)
SpaceRunEnd(t, i) == IF IsSpace(At(t, i)) THEN SpaceRunEnd(t, i + 1) ELSE i

RECURSIVE WordRunEnd(_, _)
WordRunEnd(t, i) == IF IsWord(At(t, i)) THEN WordRunEnd(t, i + 1) ELSE i

HasAt(t, i, word) ==
    i + Len(word) - 1 <= Len(t) /\ SubSeq(t, i, i + Len(word) - 1) = word

\* the backquote character (a TLA+ string cannot hold it)
Bq == "BQ"

Fence == <<Bq, Bq, Bq>>

\* the first closing fence at or after e, 0 if none
FirstFence(t, e) ==
    LET J == {j \in e..Len(t) : HasAt(t, j, Fence)}
    IN  IF J = {} THEN 0 ELSE Min(J)

\* (?=#+|$): the first "#" at or after e, else the end of the text
FirstHash(t, e) ==
    LET J == {j \in e..Len(t) : t[j] = "#"}
    IN  IF J = {} THEN Len(t) + 1 ELSE Min(J)

\* (.*?\.[\w]+)[\s\n]+ from c: k characters other than line terminators, a
\* ".", the whole run of word characters after it (a shorter run is followed
\* by a word character, not by white space), the whole run of white space.
\* With fenced, the body that follows must reach a closing fence.
TokenOk(t, c, k, fenced) ==
    LET dot == c + k
        d == WordRunEnd(t, dot + 1)
        e == SpaceRunEnd(t, d)
    IN  /\ \A x \in c..(dot - 1) : t[x] \notin {"\n", "\r"}
        /\ At(t, dot) = "."
        /\ d > dot + 1
        /\ e > d
        /\ fenced => FirstFence(t, e) # 0

NoMatch == [found |-> FALSE]

\* the groups and the end of the match whose group 1 starts at c
TokenMatch(t, c, fenced) ==
    LET K == {k \in 0..(Len(t) - c) : TokenOk(t, c, k, fenced)}
    IN  IF K = {} THEN NoMatch
        ELSE LET d == WordRunEnd(t, c + Min(K) + 1)
                 e == SpaceRunEnd(t, d)
                 j == IF fenced THEN FirstFence(t, e) ELSE FirstHash(t, e)
             IN  [found |-> TRUE, path |-> SubSeq(t, c, d - 1),
                  content |-> SubSeq(t, e, j - 1),
                  end |-> IF fenced THEN j + 3 ELSE j]

LangTags == << <<"j", "s">>,
               <<"j", "a", "v", "a", "s", "c", "r", "i", "p", "t">>,
               <<"h", "t", "m", "l">>,
               <<"c", "s", "s">>,
               <<"t", "s", "x">>,
               <<"j", "s", "x">>,
               <<>> >>

\* the length of the marker (?:\/\/|<!--) at b, 0 if there is none
MarkerLen(t, b) ==
    IF HasAt(t, b, <<"/", "/">>) THEN 2
    ELSE IF HasAt(t, b, <<"<", "!", "-", "-">>) THEN 4
    ELSE 0

\* with the language tag `tag` at i: \s*, the marker, \s*, and the rest
TagMatch(t, i, tag) ==
    LET b == SpaceRunEnd(t, i + Len(tag))
    IN  IF HasAt(t, i, tag) /\ MarkerLen(t, b) # 0
        THEN TokenMatch(t, SpaceRunEnd(t, b + MarkerLen(t, b)), TRUE)
        ELSE NoMatch

\* the alternatives of (?:js|javascript|html|css|tsx|jsx)? in order, the
\* empty one last: the first with which the rest of the pattern matches
RECURSIVE TryTags(_, _, _)
OrNextTag(m, t, i, k) == IF m.found THEN m ELSE TryTags(t, i, k + 1)

TryTags(t, i, k) ==
    IF k > Len(LangTags) THEN NoMatch
    ELSE OrNextTag(TagMatch(t, i, LangTags[k]), t, i, k)

\* #+\s+ at i: the index after the run of "#" and the white space that must
\* follow it, 0 if the text does not continue so
HeadingEnd(t, i) ==
    LET r == CHOOSE x \in i..(Len(t) + 1) :
                 (\A y \in i..(x - 1) : t[y] = "#") /\ At(t, x) # "#"
    IN  IF r > i /\ SpaceRunEnd(t, r) > r THEN SpaceRunEnd(t, r) ELSE 0

\* a match of pattern n that starts at i
MatchAt(n, t, i) ==
    IF n = 1 THEN IF HasAt(t, i, Fence) THEN TryTags(t, i + 3, 1) ELSE NoMatch
    ELSE LET c == IF n = 2 THEN IF HasAt(t, i, Fence) THEN i + 3 ELSE 0
                  ELSE HeadingEnd(t, i)
         IN  IF c = 0 THEN NoMatch ELSE TokenMatch(t, c, n = 2)

\* pattern.exec(message): the leftmost match that starts at i or later
RECURSIVE Exec(_, _, _)
OrLater(m, n, t, i) ==
    IF m.found
    THEN [found |-> TRUE, path |-> m.path, content |-> m.content, end |-> m.end,
          index |-> i]
    ELSE Exec(n, t, i + 1)

Exec(n, t, i) == IF i > Len(t) THEN NoMatch ELSE OrLater(MatchAt(n, t, i), n, t, i)

\* the loop `while ((match = pattern.exec(message)) !== null)`: the matches
\* of pattern n from lastIndex on, each search resuming at the end of the
\* match before
RECURSIVE Matches(_, _, _)
Collect(m, n, t) ==
    IF m.found
    THEN <<[pattern |-> n, path |-> m.path, content |-> m.content, index |-> m.index]>>
         \o Matches(n, t, m.end)
    ELSE <<>>

Matches(n, t, lastIndex) == Collect(Exec(n, t, lastIndex), n, t)

\* the patterns tried from the last to the first: a variant
MatchesLastPatternFirst(n, t) ==
    IF n > 1 THEN <<>> ELSE Matches(3, t, 1) \o Matches(2, t, 1) \o Matches(1, t, 1)

\* every match in the order the two nested loops take them, from pattern n on
RECURSIVE MatchesFrom(_, _)
MatchesFrom(n, t) == IF n > 3 THEN <<>> ELSE Matches(n, t, 1) \o MatchesFrom(n + 1, t)

AllMatches(t) == MatchesFrom(1, t)

(***************************************************************************)
(* The model responses of the runs, and their matches computed once.       *)
(***************************************************************************)
\* one comment-marker block naming a.js
ReplyBlock == Fence \o <<"j", "s", " ", "/", "/", " ", "a", ".", "j", "s", "\n", "7", "\n">>
              \o Fence

\* prose without a file block
ReplyProse == <<"o", "k">>

\* one comment-marker block naming foo.js, with the content console.log(1)
ConsoleLog == <<"c", "o", "n", "s", "o", "l", "e", ".", "l", "o", "g", "(", "1", ")">>

\* the opening line of a block: the language tag, the marker, the file name
FooLine == <<"j", "s", " ", "/", "/", " ", "f", "o", "o", ".", "j", "s", "\n">>

ReplyFoo == Fence \o FooLine \o ConsoleLog \o <<"\n">> \o Fence

\* a fenced block that names no file
ReplyBare == Fence \o <<"j", "s", "\n", "7", "\n">> \o Fence

\* two comment-marker blocks that both name foo.js, with contents 1 and 7
ReplyTwo ==
    Fence \o FooLine \o <<"1", "\n">> \o Fence \o <<"\n">>
          \o Fence \o FooLine \o <<"7", "\n">> \o Fence

AllReplies == {ReplyBlock, ReplyProse, ReplyFoo, ReplyBare, ReplyTwo}

\* a heading naming h.js, then a fence naming b.js, then a comment-marker
\* block naming a.js: the three patterns in the reverse of their order
ReplyMixed ==
    <<"#", " ", "h", ".", "j", "s", "\n", "1", "\n">>
    \o Fence \o <<"b", ".", "j", "s", "\n", "2", "\n">> \o Fence \o <<"\n">>
    \o Fence \o <<"j", "s", " ", "/", "/", " ", "a", ".", "j", "s", "\n", "7", "\n">> \o Fence

\* one fence naming foo.js and nothing else
ReplyName == Fence \o <<"f", "o", "o", ".", "j", "s", "\n", "1", "\n">> \o Fence

\* a fence and a heading that both name foo.js, with contents 1 and 7
ReplyDup ==
    Fence \o <<"f", "o", "o", ".", "j", "s", "\n", "1", "\n">> \o Fence
    \o <<"\n", "#", " ", "f", "o", "o", ".", "j", "s", "\n", "7">>

HtmlBody == <<"<", "p", ">">>

\* the HTML form of the system message, line 285:
\* ```html <!-- index.html -->\ncode here```
ReplyHtml ==
    Fence \o <<"h", "t", "m", "l", " ", "<", "!", "-", "-", " ">> \o IndexHtmlName
          \o <<" ", "-", "-", ">", "\n">> \o HtmlBody \o <<"\n">> \o Fence

ParseReplies == {ReplyMixed, ReplyName, ReplyDup, ReplyTwo, ReplyHtml}

MatchTable == [r \in AllReplies \cup ParseReplies |-> AllMatches(r)]

\* the matches of a response of the runs
MatchesOf(message) == MatchTable[message]

(***************************************************************************)
(* processAiResponseForFileOperations and handleChatMessage                *)
(***************************************************************************)
UpdatedByAI == "Updated by AI"

\* the dispatch without the probe, every match a createFile: a variant
DispatchCreate(W, absoluteFilePath, content) == CreateFile(W, absoluteFilePath, content)

\* lines 1015-1036: the probe of the resolved path and the one call it
\* leads to.  modifyFile and createFile catch their own errors, so the catch
\* of line 1030 is entered by neither.
Dispatch(W, absoluteFilePath, content) ==
    IF StatOk(W, absoluteFilePath)
    THEN ModifyFile(W, absoluteFilePath, content, UpdatedByAI)
    ELSE CreateFile(W, absoluteFilePath, content)

\* one match handled with `continue` where line 1006 has `return`: a variant
\* in which the loop goes on after the missing workspace folder
ProcessTrimmedContinue(W, filePath, content) ==
    IF filePath = <<>> \/ content = <<>>
    THEN [W |-> W, dispatched |-> FALSE, returned |-> FALSE]
    ELSE IF workspaceFolders = <<>>
    THEN [W |-> Send(W, ErrorMsg("No workspace folder is open", <<>>)),
          dispatched |-> FALSE, returned |-> FALSE]
    ELSE [W |-> Dispatch(W, IF IsAbsolute(filePath) THEN filePath
                            ELSE PathJoin(workspaceFolders[1], filePath), content),
          dispatched |-> TRUE, returned |-> FALSE]

\* lines 990-1036 for one match with its groups trimmed.  `returned` is the
\* `return;` of line 1006, which ends the function with no value;
\* `dispatched` is the assignment of line 1029.
ProcessTrimmed(W, filePath, content) ==
    IF filePath = <<>> \/ content = <<>>
    THEN [W |-> W, dispatched |-> FALSE, returned |-> FALSE]
    ELSE IF workspaceFolders = <<>>
    THEN [W |-> Send(W, ErrorMsg("No workspace folder is open", <<>>)),
          dispatched |-> FALSE, returned |-> TRUE]
    ELSE [W |-> Dispatch(W, IF IsAbsolute(filePath) THEN filePath
                            ELSE PathJoin(workspaceFolders[1], filePath), content),
          dispatched |-> TRUE, returned |-> FALSE]

ProcessMatch(W, m) == ProcessTrimmed(W, Trim(m.path), Trim(m.content))

\* the two loops over the matches; the value is the world after and what the
\* function returns: operationsPerformed, or undefined after `return;`
RECURSIVE ProcessMatches(_, _, _)
\* a loop that ends at the first operation that fails: a variant
AfterMatchStopAtFailure(r, ms, operationsPerformed) ==
    IF r.returned THEN [W |-> r.W, result |-> "undefined"]
    ELSE IF r.W.tr # <<>> /\ r.W.tr[Len(r.W.tr)].op = "send"
            /\ r.W.tr[Len(r.W.tr)].msg.type = "error"
    THEN [W |-> r.W, result |-> "true"]
    ELSE ProcessMatches(r.W, ms, operationsPerformed \/ r.dispatched)

\* a loop without the assignment of line 1029: a variant
AfterMatchFlagLost(r, ms, operationsPerformed) ==
    IF r.returned THEN [W |-> r.W, result |-> "undefined"]
    ELSE ProcessMatches(r.W, ms, operationsPerformed)

AfterMatch(r, ms, operationsPerformed) ==
    IF r.returned THEN [W |-> r.W, result |-> "undefined"]
    ELSE ProcessMatches(r.W, ms, operationsPerformed \/ r.dispatched)

ProcessMatches(W, ms, operationsPerformed) ==
    IF ms = <<>>
    THEN [W |-> W, result |-> IF operationsPerformed THEN "true" ELSE "false"]
    ELSE AfterMatch(ProcessMatch(W, Head(ms)), Tail(ms), operationsPerformed)

\* the matches without those whose path an earlier match has named
RECURSIVE FirstOfEachPath(_, _)
FirstOfEachPath(ms, seen) ==
    IF ms = <<>> THEN <<>>
    ELSE IF Trim(Head(ms).path) \in seen THEN FirstOfEachPath(Tail(ms), seen)
    ELSE <<Head(ms)>> \o FirstOfEachPath(Tail(ms), seen \cup {Trim(Head(ms).path)})

\* the extraction with one operation per path: a variant that coalesces the
\* matches that name the same file
ProcessAiResponseOncePerPath(W, message) ==
    ProcessMatches(W, FirstOfEachPath(MatchesOf(message), {}), FALSE)

\* the extraction with operationsPerformed set from the start: a variant
ProcessAiResponseFlagSet(W, message) == ProcessMatches(W, MatchesOf(message), TRUE)

ProcessAiResponseForFileOperations(W, message) ==
    ProcessMatches(W, MatchesOf(message), FALSE)

\* the chat message sent ahead of the file operations: a variant
ChatResponseFirst(r, responseText, executeMode) ==
    [r.W EXCEPT !.tr = <<[op |-> "send",
                          msg |-> [type |-> "chat", message |-> responseText,
                                   executeMode |-> "true",
                                   filesProcessed |-> r.result]]>> \o @]

\* lines 315-321: the chat message with what the extraction returned
ChatResponse(r, responseText, executeMode) ==
    Send(r.W, [type |-> "chat", message |-> responseText,
               executeMode |-> IF executeMode = "true" THEN "true" ELSE "false",
               filesProcessed |-> r.result])

\* handleChatMessage extracting file operations whatever executeMode says: a
\* variant
HandleChatAlwaysExecute(W, executeMode, completion) ==
    IF ~completion.ok
    THEN Send(W, ErrorMsg("Error processing chat message", <<>>))
    ELSE ChatResponse(ProcessAiResponseForFileOperations(W, completion.text),
                      completion.text, executeMode)

\* handleChatMessage with a catch that only logs: a variant in which a
\* failed model call is answered with nothing
HandleChatFailureSilent(W, executeMode, completion) ==
    IF ~completion.ok
    THEN W
    ELSE ChatResponse(IF executeMode = "true"
                      THEN ProcessAiResponseForFileOperations(W, completion.text)
                      ELSE [W |-> W, result |-> "false"],
                      completion.text, executeMode)

\* handleChatMessage.  completion is the outcome of anthropic.messages.create:
\* [ok |-> FALSE] when the call throws, else the response text.  executeMode
\* is the field of the request: "true", "false" or "absent".
HandleChatMessage(W, executeMode, completion) ==
    IF ~completion.ok
    THEN Send(W, ErrorMsg("Error processing chat message", <<>>))
    ELSE ChatResponse(IF executeMode = "true"
                      THEN ProcessAiResponseForFileOperations(W, completion.text)
                      ELSE [W |-> W, result |-> "false"],
                      completion.text, executeMode)

(***************************************************************************)
(* The router: ws.on('message'), lines 92-147.  An inbound message is      *)
(* malformed (JSON.parse throws), the JSON value null (reading data.type   *)
(* throws), or an object with a type field.                                *)
(***************************************************************************)
\* a malformed message answered like an unknown type: a variant
GenericErrorTyped == ErrorMsg("Unknown message type", <<>>)

GenericError == ErrorMsg("Error processing message", <<>>)

\* the router without its default case: a variant in which a message of an
\* unknown type is dropped without an answer
OnMessageNoDefault(W, m) ==
    IF m.json \in {"malformed", "null"} THEN Send(W, GenericError)
    ELSE CASE m.type = "chat" -> HandleChatMessage(W, m.executeMode, m.completion)
           [] m.type = "getFiles" -> SendWorkspaceInfo(W)
           [] m.type = "getFileContent" -> GetFileContent(W, m.filePath)
           [] m.type = "modifyFile" -> ModifyFile(W, m.filePath, m.content, m.description)
           [] m.type = "createFile" -> CreateFile(W, m.filePath, m.content)
           [] m.type = "renderPreview" -> RenderPreview(W, m.filePath)
           [] m.type = "getDiff" -> GetFileDiff(W, m.filePath)
           [] m.type = "testFileCreation" -> TestFileCreation(W)
           [] OTHER -> W

OnMessage(W, m) ==
    IF m.json \in {"malformed", "null"} THEN Send(W, GenericError)
    ELSE CASE m.type = "chat" -> HandleChatMessage(W, m.executeMode, m.completion)
           [] m.type = "getFiles" -> SendWorkspaceInfo(W)
           [] m.type = "getFileContent" -> GetFileContent(W, m.filePath)
           [] m.type = "modifyFile" -> ModifyFile(W, m.filePath, m.content, m.description)
           [] m.type = "createFile" -> CreateFile(W, m.filePath, m.content)
           [] m.type = "renderPreview" -> RenderPreview(W, m.filePath)
           [] m.type = "getDiff" -> GetFileDiff(W, m.filePath)
           [] m.type = "testFileCreation" -> TestFileCreation(W)
           [] OTHER -> Send(W, ErrorMsg("Unknown message type", m.type))

\* the state a handler can change, as recorded before a message is handled
Snapshot == [fs |-> fs, dirs |-> dirs, docs |-> docs, snap |-> originalFileContents,
             procs |-> devProcs]

\* the last n entries of h
LastN(h, n) == IF Len(h) <= n THEN h ELSE SubSeq(h, Len(h) - n + 1, Len(h))

\* who a change on disk is due to: the type of the request whose handler wrote
Origin(m) == IF m.json = "object" THEN m.type ELSE m.json

\* one message handled to completion: the state after it, the change events
\* its writes raise, and its entry in hist, of which the last n are kept
Handle(m, n) ==
    /\ wsOpen
    /\ \E W \in {OnMessage(World, m)} :
        /\ fs' = W.fs
        /\ dirs' = W.dirs
        /\ docs' = W.docs
        /\ originalFileContents' = W.snap
        /\ devProcs' = W.procs
        /\ watcher' = {[path |-> p, origin |-> Origin(m)] : p \in W.changed}
        /\ hist' = LastN(Append(hist, [msg |-> m, pre |-> Snapshot, tr |-> W.tr]), n)
    /\ UNCHANGED <<workspaceFolders, devServer, server, wss, faults, wsOpen, reqPaths,
                   running>>

Obj(type) == [json |-> "object", type |-> type]

\* the requests that carry nothing but a type, the last two of no known type
TypeOnlyMsgs == {Obj(t) : t \in {"getFiles", "testFileCreation", "deleteFile", "undefined"}}

\* text that is no JSON, and JSON that is no object
MalformedMsgs == {[json |-> j] : j \in {"malformed", "null"}}

RecvGetFiles(n) == \E m \in {x \in TypeOnlyMsgs : x.type = "getFiles"} : Handle(m, n)

RecvGetFileContent(P, n) ==
    \E p \in P : Handle([json |-> "object", type |-> "getFileContent", filePath |-> p], n)

RecvModifyFile(P, C, n) ==
    \E p \in P, c \in C :
        Handle([json |-> "object", type |-> "modifyFile", filePath |-> p,
                content |-> c, description |-> "edit"], n)

RecvCreateFile(P, C, n) ==
    \E p \in P, c \in C :
        Handle([json |-> "object", type |-> "createFile", filePath |-> p, content |-> c], n)

RecvRenderPreview(P, n) ==
    \E p \in P : Handle([json |-> "object", type |-> "renderPreview", filePath |-> p], n)

RecvGetDiff(P, n) ==
    \E p \in P : Handle([json |-> "object", type |-> "getDiff", filePath |-> p], n)

\* the answers of the model
Replies == {ReplyBlock, ReplyProse}

\* the chat requests: the model call throws, or answers one of the texts
\* Replies
ChatMsgs ==
    {[json |-> "object", type |-> "chat", executeMode |-> em, completion |-> completion] :
        em \in {"true", "false", "absent"},
        completion \in {[ok |-> FALSE]} \cup {[ok |-> TRUE, text |-> r] : r \in Replies}}

RecvChat(n) == \E m \in ChatMsgs : Handle(m, n)

RecvTestFileCreation(n) ==
    \E m \in {x \in TypeOnlyMsgs : x.type = "testFileCreation"} : Handle(m, n)

RecvUnknown(n) ==
    \E m \in {x \in TypeOnlyMsgs : x.type \in {"deleteFile", "undefined"}} : Handle(m, n)

RecvMalformed(n) == \E m \in MalformedMsgs : Handle(m, n)

(***************************************************************************)
(* The client and the editor.                                              *)
(***************************************************************************)
\* wss.on('connection'): the workspace info is sent at once
Connect ==
    /\ wss = "open"
    /\ ~wsOpen
    /\ wsOpen' = TRUE
    /\ hist' = <<[msg |-> [json |-> "none", type |-> "connection", origin |-> "client"],
                  pre |-> Snapshot,
                  tr |-> SendWorkspaceInfo(World).tr]>>
    /\ UNCHANGED <<fs, dirs, docs, originalFileContents, workspaceFolders, devServer, server,
                   wss, devProcs, faults, watcher, reqPaths, running>>

\* the client closes its socket
Disconnect ==
    /\ wsOpen
    /\ wsOpen' = FALSE
    /\ hist' = <<>>
    /\ UNCHANGED <<fs, dirs, docs, originalFileContents, workspaceFolders, devServer, server,
                   wss, devProcs, faults, watcher, reqPaths, running>>

\* an event of the editor, which is no message of the client: the entry of
\* hist holds what the extension sent because of it
Event(type, origin, path) ==
    [msg |-> [json |-> "none", type |-> type, origin |-> origin],
     pre |-> Snapshot,
     tr |-> <<[op |-> "send",
               msg |-> [type |-> type, path |-> path, name |-> Basename(path)]]>>]

\* the user opens a file in the editor: the document shows the disk content,
\* and its editor becomes the active one, which broadcastActiveEditorChange
\* (lines 79-84, 230-245) tells the connected client
OpenDocument(P) ==
    \E p \in P :
        /\ p \in DOMAIN fs
        /\ p \notin DOMAIN docs
        /\ docs' = Put(docs, p, fs[p])
        /\ hist' = IF wsOpen THEN <<Event("activeEditorChanged", "editor", p)>> ELSE <<>>
        /\ UNCHANGED <<fs, dirs, originalFileContents, workspaceFolders, devServer,
                       server, wss, devProcs, faults, watcher, wsOpen, reqPaths, running>>

\* the user closes a document; unsaved text is dropped
CloseDocument(P) ==
    \E p \in P :
        /\ p \in DOMAIN docs
        /\ docs' = [q \in DOMAIN docs \ {p} |-> docs[q]]
        /\ hist' = <<>>
        /\ UNCHANGED <<fs, dirs, originalFileContents, workspaceFolders, devServer,
                       server, wss, devProcs, faults, watcher, wsOpen, reqPaths, running>>

\* the user saves a document whose text differs from the disk: a change on
\* disk the watcher reports if the file is watched
SaveDocument(P) ==
    \E p \in P :
        /\ p \in DOMAIN docs
        /\ p \notin DOMAIN fs \/ fs[p] # docs[p]
        /\ fs' = Put(fs, p, docs[p])
        /\ watcher' = IF Watched(p) THEN {[path |-> p, origin |-> "editor"]} ELSE {}
        /\ hist' = <<>>
        /\ UNCHANGED <<dirs, docs, originalFileContents, workspaceFolders, devServer,
                       server, wss, devProcs, faults, wsOpen, reqPaths, running>>

\* fileSystemWatcher.onDidChange, lines 71-74, with broadcastFileChange, lines
\* 213-227: a pending change event is delivered, and a connected client is
\* sent fileChanged
FileChanged ==
    \E e \in watcher :
        /\ watcher' = watcher \ {e}
        /\ hist' = IF wsOpen THEN <<Event("fileChanged", e.origin, e.path)>> ELSE <<>>
        /\ UNCHANGED <<fs, dirs, docs, originalFileContents, workspaceFolders, devServer,
                       server, wss, devProcs, faults, wsOpen, reqPaths, running>>

\* deactivate without the wss.close() of lines 1051-1053: a variant that
\* leaves the WebSocket server open
DeactivateServerOnly ==
    /\ server = "open"
    /\ server' = "closed"
    /\ devServer' = "null"
    /\ devProcs' = IF devServer # "null" THEN devProcs - 1 ELSE devProcs
    /\ hist' = <<[msg |-> [json |-> "none", type |-> "deactivate", origin |-> "editor"],
                  pre |-> Snapshot, tr |-> <<>>]>>
    /\ UNCHANGED <<fs, dirs, docs, originalFileContents, workspaceFolders, wss, faults,
                   watcher, wsOpen, reqPaths, running>>

\* deactivate, lines 1047-1055: server.close() and wss.close() stop the two
\* servers; stopDevServer, lines 907-913, closes what devServer holds and
\* sets it to null, and does nothing when it is null.  Whether wss.close()
\* also ends the client's connection depends on the version of ws, so both
\* outcomes are followed.
Deactivate ==
    /\ server = "open" \/ wss = "open"
    /\ server' = "closed"
    /\ wss' = "closed"
    /\ devServer' = "null"
    /\ devProcs' = IF devServer # "null" THEN devProcs - 1 ELSE devProcs
    /\ wsOpen' \in {wsOpen, FALSE}
    /\ hist' = <<[msg |-> [json |-> "none", type |-> "deactivate", origin |-> "editor"],
                  pre |-> Snapshot, tr |-> <<>>]>>
    /\ UNCHANGED <<fs, dirs, docs, originalFileContents, workspaceFolders, faults, watcher,
                   reqPaths, running>>

NoFaults == [noRead |-> {}, noWrite |-> {}, noMkdir |-> {}, noEdit |-> {}]

\* the texts a client sends as file content: the first MaxTexts of these
AllTexts == <<Empty, TextX, TextY, <<"z">>, <<"x", "y">> >>
MaxTexts == 3
ReqTexts == {AllTexts[i] : i \in 1..MaxTexts}

\* a.js exists with text x, nothing is open, no snapshot is stored; the
\* workspace folder is open or not; the client works on a.js, which exists,
\* or on s/b.css, which does not and whose directory does not
InitFaulty(pathSets, folderSets, faultSets) ==
    /\ fs = [p \in {PathA} |-> TextX]
    /\ dirs = {Root}
    /\ docs = <<>>
    /\ originalFileContents = <<>>
    /\ workspaceFolders \in folderSets
    /\ devServer = "null"
    /\ server = "open"
    /\ wss = "open"
    /\ devProcs = 0
    /\ faults \in faultSets
    /\ watcher = {}
    /\ wsOpen = FALSE
    /\ reqPaths \in pathSets
    /\ hist = <<>>
    /\ running = <<>>

InitWith(pathSets, folderSets) == InitFaulty(pathSets, folderSets, {NoFaults})

\* the steps of a run that keeps the last n entries of hist
NextWith(T, n) ==
    \/ Connect
    \/ Disconnect
    \/ OpenDocument(reqPaths)
    \/ CloseDocument(reqPaths)
    \/ SaveDocument(reqPaths)
    \/ FileChanged
    \/ RecvGetFiles(n)
    \/ RecvGetFileContent(reqPaths, n)
    \/ RecvModifyFile(reqPaths, T, n)
    \/ RecvCreateFile(reqPaths, T, n)
    \/ RecvRenderPreview(reqPaths, n)
    \/ RecvGetDiff(reqPaths, n)
    \/ RecvChat(n)
    \/ RecvTestFileCreation(n)
    \/ RecvUnknown(n)
    \/ RecvMalformed(n)

Init == InitWith({{PathA}, {PathB}, {PathJ}}, {<<>>, <<Root>>})

Next == NextWith(ReqTexts, 1)

Spec == Init /\ [][Next]_vars

(***************************************************************************)
(* Runs that keep the last SeqLen messages, for properties of a sequence   *)
(* of requests on one path: the client reads, modifies, creates and diffs  *)
(* a.js, which exists, in an open workspace folder.                        *)
(***************************************************************************)
SeqLen == 3

SeqTexts == {Empty, TextX, TextY}

InitSeq == InitWith({{PathA}}, {<<Root>>})

NextSeq ==
    \/ Connect
    \/ Disconnect
    \/ OpenDocument(reqPaths)
    \/ CloseDocument(reqPaths)
    \/ SaveDocument(reqPaths)
    \/ FileChanged
    \/ RecvGetFileContent(reqPaths, SeqLen)
    \/ RecvModifyFile(reqPaths, SeqTexts, SeqLen)
    \/ RecvCreateFile(reqPaths, SeqTexts, SeqLen)
    \/ RecvGetDiff(reqPaths, SeqLen)

SpecSeq == InitSeq /\ [][NextSeq]_vars

(***************************************************************************)
(* Runs in which the file system may refuse the read or the write of one   *)
(* path, and in which the model answers an execute-mode chat with any of   *)
(* the responses: the client reads, modifies and diffs a.js and chats.     *)
(***************************************************************************)
FaultSets == {NoFaults,
              [NoFaults EXCEPT !.noWrite = {PathA}],
              [NoFaults EXCEPT !.noRead = {PathA}],
              [NoFaults EXCEPT !.noWrite = {PathFoo}]}

\* the execute-mode chat requests whose model call answers
ExecChatMsgs ==
    {[json |-> "object", type |-> "chat", executeMode |-> "true",
      completion |-> [ok |-> TRUE, text |-> r]] : r \in AllReplies}

RecvExecChat(n) == \E m \in ExecChatMsgs : Handle(m, n)

OpsTexts == {TextX, TextY}

InitOps == InitFaulty({{PathA}}, {<<>>, <<Root>>}, FaultSets)

NextOps ==
    \/ Connect
    \/ Disconnect
    \/ OpenDocument(reqPaths)
    \/ CloseDocument(reqPaths)
    \/ SaveDocument(reqPaths)
    \/ FileChanged
    \/ RecvGetFileContent(reqPaths, 1)
    \/ RecvModifyFile(reqPaths, OpsTexts, 1)
    \/ RecvGetDiff(reqPaths, 1)
    \/ RecvExecChat(1)

SpecOps == InitOps /\ [][NextOps]_vars

(***************************************************************************)
(* Runs of execute-mode chats answered with responses that mix the three   *)
(* patterns, name one file twice or use the HTML form, with the write of   *)
(* foo.js refused or not and the workspace folder open or not; the user    *)
(* opens, closes and saves foo.js once it exists.                          *)
(***************************************************************************)
ParseChatMsgs ==
    {[json |-> "object", type |-> "chat", executeMode |-> "true",
      completion |-> [ok |-> TRUE, text |-> r]] : r \in ParseReplies}

RecvParseChat(n) == \E m \in ParseChatMsgs : Handle(m, n)

InitParse ==
    InitFaulty({{PathFoo}}, {<<>>, <<Root>>},
               {NoFaults, [NoFaults EXCEPT !.noWrite = {PathFoo}]})

NextParse ==
    \/ Connect
    \/ Disconnect
    \/ OpenDocument(reqPaths)
    \/ CloseDocument(reqPaths)
    \/ SaveDocument(reqPaths)
    \/ FileChanged
    \/ RecvParseChat(1)

SpecParse == InitParse /\ [][NextParse]_vars

(***************************************************************************)
(* Runs in which files are created two directories below the workspace     *)
(* root, neither of which exists at the start, and in which the file       *)
(* system may refuse to make one of them or to write the file: the client  *)
(* creates, reads and modifies s/t/d.js.                                   *)
(***************************************************************************)
DirFaultSets == {NoFaults,
                 [NoFaults EXCEPT !.noMkdir = {Dirname(Dirname(PathD))}],
                 [NoFaults EXCEPT !.noMkdir = {Dirname(PathD)}],
                 [NoFaults EXCEPT !.noWrite = {PathD}],
                 [NoFaults EXCEPT !.noEdit = {PathD}]}

InitDirs == InitFaulty({{PathD}}, {<<Root>>}, DirFaultSets)

NextDirs ==
    \/ Connect
    \/ Disconnect
    \/ OpenDocument(reqPaths)
    \/ CloseDocument(reqPaths)
    \/ SaveDocument(reqPaths)
    \/ FileChanged
    \/ RecvGetFileContent(reqPaths, 1)
    \/ RecvModifyFile(reqPaths, ReqTexts, 1)
    \/ RecvCreateFile(reqPaths, ReqTexts, 1)

SpecDirs == InitDirs /\ [][NextDirs]_vars

(***************************************************************************)
(* Runs with previews and chats, ended or not by the deactivation of the   *)
(* extension: the client creates a file with one of the extensions, with a *)
(* text that is JSON or not, has it previewed, chats and asks for the      *)
(* workspace.  A chat or a getFiles keeps the message before it in hist,   *)
(* up to ViewLen messages.                                                 *)
(***************************************************************************)
ViewLen == 2

JsonObj == <<"{", "\"", "a", "\"", ":", "1", "}">>

JsonBad == <<"{", "a", ":", "1", "}">>

ViewTexts == {TextY, JsonObj, JsonBad}

ViewPaths == {PathA, PathV, PathH, PathC, PathJ, PathK, PathT}

\* the chats whose model call throws, and one that is answered with prose
ViewChatMsgs ==
    {m \in ChatMsgs : ~m.completion.ok
                      \/ (m.executeMode = "false" /\ m.completion.text = ReplyProse)}

RecvViewChat(n) == \E m \in ViewChatMsgs : Handle(m, n)

InitView == InitWith({{p} : p \in ViewPaths}, {<<Root>>})

NextView ==
    \/ Connect
    \/ Disconnect
    \/ Deactivate
    \/ OpenDocument(reqPaths)
    \/ CloseDocument(reqPaths)
    \/ SaveDocument(reqPaths)
    \/ FileChanged
    \/ RecvGetFiles(ViewLen)
    \/ RecvCreateFile(reqPaths, ViewTexts, 1)
    \/ RecvRenderPreview(reqPaths, 1)
    \/ RecvViewChat(ViewLen)

SpecView == InitView /\ [][NextView]_vars

(***************************************************************************)
(* escapeHtml applied to every text of up to MaxEscLen characters, the     *)
(* five it replaces and a letter.                                          *)
(***************************************************************************)
MaxEscLen == 3

EscChars == {"&", "<", ">", "\"", "'", "a"}

EscTexts == UNION {[1..n -> EscChars] : n \in 0..MaxEscLen}

\* one call of escapeHtml: hist holds the text and what the call produced
CallEscapeHtml ==
    \E t \in EscTexts :
        /\ hist' = <<[msg |-> [json |-> "none", type |-> "escapeHtml", origin |-> "call",
                               text |-> t],
                      pre |-> Snapshot, tr |-> <<>>, result |-> EscapeHtml(t)]>>
        /\ UNCHANGED <<fs, dirs, docs, originalFileContents, workspaceFolders, devServer,
                       server, wss, devProcs, faults, watcher, wsOpen, reqPaths, running>>

InitEscape == InitWith({{PathJ}}, {<<Root>>})

NextEscape == CallEscapeHtml

SpecEscape == InitEscape /\ [][NextEscape]_vars

(***************************************************************************)
(* Handlers followed await by await.  ws.on('message') starts the async    *)
(* handler of each message without waiting for the one before (lines       *)
(* 92-126), so the handlers of up to MaxHandlers requests are in flight    *)
(* together.  One step of a handler is the completion of the call it       *)
(* awaits and the code that runs from there to the next await.  A read is  *)
(* two steps, the read of the file and the code that receives the data, so *)
(* that a write of another handler may fall between them.  A step that     *)
(* sends, writes or edits adds its entry to hist, with the index `id` of   *)
(* the handler in running; hist and running start afresh when a message    *)
(* arrives while no handler is in flight.  The editor acts while no        *)
(* handler is in flight.                                                   *)
(***************************************************************************)
MaxHandlers == 2

\* every handler that was started has returned
Idle == \A i \in DOMAIN running : running[i].pc = "done"

\* fs.readFile of the path, performed now
ReadNow(W, p) == IF ReadOk(W, p) THEN [ok |-> TRUE, text |-> W.fs[p]] ELSE [ok |-> FALSE]

\* the last step of modifyFile refusing to write over a change made since
\* the baseline was stored: a variant with conflict detection
ApplyStepDetectConflict(W, m) ==
    IF /\ m.filePath \in DOMAIN W.snap
       /\ m.filePath \in DOMAIN W.fs
       /\ W.snap[m.filePath] # (IF m.filePath \in DOMAIN W.docs THEN W.docs[m.filePath]
                                ELSE W.fs[m.filePath])
    THEN Send(W, ErrorMsg("Error modifying file: conflict", m.filePath))
    ELSE WriteModified(W, m.filePath, m.content, m.description)

\* lines 700-730 of modifyFile as one step: the edit or the write, the
\* notification and the answer
ApplyStep(W, m) == WriteModified(W, m.filePath, m.content, m.description)

\* modifyFile from the position r.pc to its next await.
\*   start     the stat of line 680 completes; lines 686-698 run up to the
\*             readFile of line 692 if the Map has no entry and no document
\*             is open, else through to the write
\*   read      the readFile is performed
\*   readDone  line 693 stores what was read: a Map.set without a second
\*             look at the Map
\*   apply     the edit or the write, the notification and the answer
ModifyStep(W, r) ==
    CASE r.pc = "start" ->
            IF ~StatOk(W, r.msg.filePath)
            THEN [W |-> Send(W, ErrorMsg("Error modifying file: File does not exist",
                                         r.msg.filePath)),
                  pc |-> "done", data |-> r.data]
            ELSE IF r.msg.filePath \in DOMAIN W.snap \/ r.msg.filePath \in DOMAIN W.docs
            THEN [W |-> StoreOriginal(W, r.msg.filePath), pc |-> "apply", data |-> r.data]
            ELSE [W |-> W, pc |-> "read", data |-> r.data]
      [] r.pc = "read" ->
            [W |-> W, pc |-> "readDone", data |-> ReadNow(W, r.msg.filePath)]
      [] r.pc = "readDone" ->
            [W |-> IF r.data.ok
                   THEN [W EXCEPT !.snap = Put(@, r.msg.filePath, r.data.text)]
                   ELSE W,
             pc |-> "apply", data |-> r.data]
      [] r.pc = "apply" ->
            [W |-> ApplyStep(W, r.msg), pc |-> "done", data |-> r.data]

\* getFileContent from the position r.pc to its next await.  The handler
\* starts at line 340 when its message arrives: with the document open it
\* ends there and then, else the readFile of line 345 begins.
\*   read      the readFile is performed
\*   readDone  lines 346-358: the Map.set and the answer
GetContentStep(W, r) ==
    CASE r.pc = "read" ->
            [W |-> W, pc |-> "readDone", data |-> ReadNow(W, r.msg.filePath)]
      [] r.pc = "readDone" ->
            [W |-> IF r.data.ok
                   THEN Send([W EXCEPT !.snap = Put(@, r.msg.filePath, r.data.text)],
                             [type |-> "fileContent", path |-> r.msg.filePath,
                              name |-> Basename(r.msg.filePath), content |-> r.data.text])
                   ELSE Send(W, ErrorMsg("Error getting file content: Failed to read file",
                                         r.msg.filePath)),
             pc |-> "done", data |-> r.data]

\* a message arrives and its handler runs to its first await, which leaves
\* it at pc in the world W
Admit(m, pc, W) ==
    /\ wsOpen
    /\ Idle \/ Len(running) < MaxHandlers
    /\ fs' = W.fs
    /\ dirs' = W.dirs
    /\ docs' = W.docs
    /\ originalFileContents' = W.snap
    /\ running' = (IF Idle THEN <<>> ELSE running)
                    \o <<[msg |-> m, pc |-> pc, data |-> [ok |-> FALSE]]>>
    /\ hist' = (IF Idle THEN <<>> ELSE hist)
                 \o (IF W.tr = <<>> THEN <<>>
                     ELSE <<[msg |-> m, pre |-> Snapshot, tr |-> W.tr,
                             id |-> IF Idle THEN 1 ELSE Len(running) + 1]>>)
    /\ UNCHANGED <<workspaceFolders, devServer, server, wss, devProcs, faults, watcher,
                   wsOpen, reqPaths>>

\* modifyFile runs to the stat of line 680
StartModifyFile(P, C) ==
    \E p \in P, c \in C :
        Admit([json |-> "object", type |-> "modifyFile", filePath |-> p,
               content |-> c, description |-> "edit"], "start", World)

StartGetFileContent(P) ==
    \E p \in P :
        IF p \in DOMAIN docs
        THEN Admit([json |-> "object", type |-> "getFileContent", filePath |-> p],
                   "done", GetFileContent(World, p))
        ELSE Admit([json |-> "object", type |-> "getFileContent", filePath |-> p],
                   "read", World)

\* handler i takes the step whose outcome is s
Advance(i, s) ==
    /\ fs' = s.W.fs
    /\ dirs' = s.W.dirs
    /\ docs' = s.W.docs
    /\ originalFileContents' = s.W.snap
    /\ watcher' = {[path |-> p, origin |-> Origin(running[i].msg)] : p \in s.W.changed}
    /\ running' = [running EXCEPT ![i] = [msg |-> @.msg, pc |-> s.pc, data |-> s.data]]
    /\ hist' = IF s.W.tr = <<>> THEN hist
               ELSE Append(hist, [msg |-> running[i].msg, pre |-> Snapshot, tr |-> s.W.tr,
                                  id |-> i])
    /\ UNCHANGED <<workspaceFolders, devServer, server, wss, devProcs, faults, wsOpen,
                   reqPaths>>

StepModifyFile ==
    \E i \in DOMAIN running :
        /\ running[i].msg.type = "modifyFile"
        /\ running[i].pc # "done"
        /\ Advance(i, ModifyStep(World, running[i]))

StepGetFileContent ==
    \E i \in DOMAIN running :
        /\ running[i].msg.type = "getFileContent"
        /\ running[i].pc # "done"
        /\ Advance(i, GetContentStep(World, running[i]))

\* the user opens or closes a file while no handler is in flight
IdleOpenDocument(P) == Idle /\ OpenDocument(P)

IdleCloseDocument(P) == Idle /\ CloseDocument(P)

InitAsync == InitWith({{PathA}}, {<<Root>>})

NextAsync ==
    \/ Connect
    \/ IdleOpenDocument(reqPaths)
    \/ IdleCloseDocument(reqPaths)
    \/ StartModifyFile(reqPaths, OpsTexts)
    \/ StartGetFileContent(reqPaths)
    \/ StepModifyFile
    \/ StepGetFileContent

SpecAsync == InitAsync /\ [][NextAsync]_vars

(***************************************************************************)
(* Properties.  Last is the entry of the message handled last; Back(k) is  *)
(* the entry k messages before it.                                         *)
(***************************************************************************)
Last == hist[Len(hist)]

Back(k) == hist[Len(hist) - k]

\* e is the entry of a well-formed request of the given type
IsReq(e, type) == e.msg.json = "object" /\ e.msg.type = type

\* the handler of e sent exactly one message, and it is of the given type
SentOne(e, type) == Len(Sent(e.tr)) = 1 /\ Sent(e.tr)[1].type = type

\* the handler of e wrote no file, made no directory and edited no document
NoEffect(e) == \A i \in 1..Len(e.tr) : e.tr[i].op \in {"send", "notify"}

\* the files, the documents and the snapshot store are as before the last message
Untouched ==
    /\ fs = Last.pre.fs
    /\ dirs = Last.pre.dirs
    /\ docs = Last.pre.docs
    /\ originalFileContents = Last.pre.snap

\* C1: once the snapshot store holds a baseline for a path, no later request
\* changes it; a later get-file-content on the path does not overwrite it
C1_BaselineNeverChanges ==
    hist # <<>> =>
        \A p \in DOMAIN Last.pre.snap :
            /\ p \in DOMAIN originalFileContents
            /\ originalFileContents[p] = Last.pre.snap[p]

C3_CreateOnExistingFails ==
    (/\ hist # <<>>
     /\ IsReq(Last, "createFile")
     /\ Last.msg.filePath \in DOMAIN Last.pre.fs)
    => /\ SentOne(Last, "error")
       /\ NoEffect(Last)
       /\ fs = Last.pre.fs

\* C4: modify-file on a path where no file exists sends one error saying so,
\* no fileModified, and writes nothing: no file is created, no document edited
C4_ModifyMissingFails ==
    (/\ hist # <<>>
     /\ IsReq(Last, "modifyFile")
     /\ Last.msg.filePath \notin DOMAIN Last.pre.fs)
    => /\ SentOne(Last, "error")
       /\ Sent(Last.tr)[1].message = "Error modifying file: File does not exist"
       /\ Sent(Last.tr)[1].about = Last.msg.filePath
       /\ NoEffect(Last)
       /\ Untouched
       /\ Last.msg.filePath \notin DOMAIN fs

\* a modify-file on a missing path has been answered
C4_Witness ==
    /\ hist # <<>>
    /\ IsReq(Last, "modifyFile")
    /\ Last.msg.filePath \notin DOMAIN Last.pre.fs
    /\ Last.msg.content # <<>>
    /\ SentOne(Last, "error")

\* C5: when create-file(p, c) was acknowledged with fileCreated, the next
\* request get-file-content(p) is answered with a fileContent whose content is c
C5_CreateThenRead ==
    (/\ Len(hist) >= 2
     /\ IsReq(Back(1), "createFile") /\ SentOne(Back(1), "fileCreated")
     /\ IsReq(Last, "getFileContent")
     /\ Last.msg.filePath = Back(1).msg.filePath)
    => /\ SentOne(Last, "fileContent")
       /\ Sent(Last.tr)[1].content = Back(1).msg.content

\* the message types of one answer each, with the type of the success message
ReplyType == [getFiles |-> "workspaceInfo", getFileContent |-> "fileContent",
              modifyFile |-> "fileModified", createFile |-> "fileCreated",
              renderPreview |-> "preview", getDiff |-> "diff"]

\* the handler of a request of these types itself sends exactly one message,
\* its success message or an error, and only the handler of a chat sends more
OneDirectAnswer ==
    hist # <<>> =>
        /\ (Last.msg.json = "object" /\ Last.msg.type \in DOMAIN ReplyType)
           => \/ SentOne(Last, ReplyType[Last.msg.type])
              \/ SentOne(Last, "error")
        /\ Len(Sent(Last.tr)) > 1 => IsReq(Last, "chat")

\* C6: a well-formed getFiles, getFileContent, modifyFile, createFile,
\* renderPreview or getDiff causes exactly one outbound message, its success
\* message or an error, never a second one: no broadcast is due to it
C6_OneMessagePerRequest ==
    hist # <<>> =>
        /\ OneDirectAnswer
        /\ Last.msg.json = "none" => Last.msg.origin \notin DOMAIN ReplyType

\* the seven message types the specification lists
SevenTypes == {"getFiles", "getFileContent", "modifyFile", "createFile",
               "renderPreview", "getDiff", "chat"}

\* the one error that names an unknown type
NamesType(e) ==
    /\ SentOne(e, "error")
    /\ Sent(e.tr)[1].message = "Unknown message type"
    /\ Sent(e.tr)[1].about = e.msg.type

C8_MalformedAnswered ==
    (hist # <<>> /\ Last.msg.json \in {"malformed", "null"})
    => /\ SentOne(Last, "error")
       /\ Sent(Last.tr)[1].message = "Error processing message"
       /\ NoEffect(Last)
       /\ Untouched
       /\ wsOpen
       /\ ENABLED RecvGetFiles(1)

\* a malformed message has been answered while a file is open and changed
C8_Witness ==
    /\ hist # <<>>
    /\ Last.msg.json = "malformed"
    /\ SentOne(Last, "error")
    /\ docs # <<>>
    /\ originalFileContents # <<>>

\* C9: a chat request with executeMode false or absent changes no file and
\* no snapshot whatever the model returns, and a chat response to it reports
\* filesProcessed = false
C9_ChatWithoutExecute ==
    (/\ hist # <<>>
     /\ IsReq(Last, "chat")
     /\ Last.msg.executeMode \in {"false", "absent"})
    => /\ NoEffect(Last)
       /\ Untouched
       /\ Len(Sent(Last.tr)) = 1
       /\ Last.msg.completion.ok
          => /\ SentOne(Last, "chat")
             /\ Sent(Last.tr)[1].filesProcessed = "false"

\* a chat without execute mode whose model answered with a file block
C9_Witness ==
    /\ hist # <<>>
    /\ IsReq(Last, "chat")
    /\ Last.msg.executeMode = "absent"
    /\ Last.msg.completion.ok
    /\ Last.msg.completion.text = ReplyBlock
    /\ workspaceFolders # <<>>
    /\ SentOne(Last, "chat")

\* C10: for an execute-mode chat whose model call succeeds, the chat message
\* is the last thing the handler does, it is the only chat message, and all
\* messages before it are the acknowledgements of the file operations
C10_ChatResponseLast ==
    (/\ hist # <<>>
     /\ IsReq(Last, "chat")
     /\ Last.msg.executeMode = "true"
     /\ Last.msg.completion.ok)
    => /\ Last.tr # <<>>
       /\ Last.tr[Len(Last.tr)].op = "send"
       /\ Last.tr[Len(Last.tr)].msg.type = "chat"
       /\ \A i \in 1..(Len(Sent(Last.tr)) - 1) :
            Sent(Last.tr)[i].type \in {"fileCreated", "fileModified", "error"}

\* an execute-mode chat that performed file operations before its answer
C10_Witness ==
    /\ hist # <<>>
    /\ IsReq(Last, "chat")
    /\ Last.msg.executeMode = "true"
    /\ Last.msg.completion.ok
    /\ Len(Sent(Last.tr)) >= 3
    /\ Sent(Last.tr)[1].type \in {"fileCreated", "fileModified"}
    /\ Sent(Last.tr)[Len(Sent(Last.tr))].type = "chat"

(***************************************************************************)
(* Extraction.  The entry of an execute-mode chat whose model call         *)
(* answered holds, in order, the acknowledgements of the file operations   *)
(* and then the chat message.                                              *)
(***************************************************************************)
\* e is the entry of an execute-mode chat that the model answered with text
ExecChat(e, text) ==
    /\ IsReq(e, "chat")
    /\ e.msg.executeMode = "true"
    /\ e.msg.completion.ok
    /\ e.msg.completion.text = text

\* the messages the handler of e sent before its last one
Acks(e) == SubSeq(Sent(e.tr), 1, Len(Sent(e.tr)) - 1)

\* a is what createFile, or modifyFile, sends for path p: its success
\* message or its error
CreateAck(a, p) ==
    \/ a.type = "fileCreated" /\ a.path = p
    \/ a.type = "error" /\ a.about = p
        /\ a.message \in {"Error creating file: createDirectory failed",
                          "Error creating file: write failed"}

ModifyAck(a, p) ==
    \/ a.type = "fileModified" /\ a.path = p
    \/ a.type = "error" /\ a.about = p
        /\ a.message \in {"Error modifying file: File does not exist",
                          "Error modifying file: Failed to apply edit",
                          "Error modifying file: write failed"}

\* the writes and edits of a trace, in order
RECURSIVE FileOps(_)
FileOps(tr) ==
    IF tr = <<>> THEN <<>>
    ELSE IF Head(tr).op \in {"writeFile", "applyEdit"}
         THEN <<Head(tr)>> \o FileOps(Tail(tr))
    ELSE FileOps(Tail(tr))

\* C11: the response with the one block naming foo.js, in an open workspace
\* without foo.js, dispatches one operation in all, a createFile of foo.js
\* under the root with the content console.log(1), and no other file is
\* created or modified
C11_OneBlockOneCreate ==
    (/\ hist # <<>>
     /\ ExecChat(Last, ReplyFoo)
     /\ workspaceFolders = <<Root>>
     /\ PathFoo \notin DOMAIN Last.pre.fs)
    => /\ Len(Acks(Last)) = 1
       /\ CreateAck(Acks(Last)[1], PathFoo)
       /\ \A i \in 1..Len(FileOps(Last.tr)) :
            /\ FileOps(Last.tr)[i].op = "writeFile"
            /\ FileOps(Last.tr)[i].path = PathFoo
            /\ FileOps(Last.tr)[i].content = ConsoleLog
       /\ \A p \in DOMAIN fs \ {PathFoo} :
            p \in DOMAIN Last.pre.fs /\ fs[p] = Last.pre.fs[p]

\* the matches of a response that line 996 lets through
ValidMatches(text) ==
    SelectSeq(MatchesOf(text), LAMBDA m : Trim(m.path) # <<>> /\ Trim(m.content) # <<>>)

\* the path a match names, resolved against the root
Resolved(m) ==
    IF IsAbsolute(Trim(m.path)) THEN Trim(m.path) ELSE PathJoin(Root, Trim(m.path))

\* a file is at the path of the i-th match when its turn comes: it was there
\* before the chat, or an earlier match of the response has created it
ExistsAt(e, ms, i) ==
    \/ Resolved(ms[i]) \in DOMAIN e.pre.fs
    \/ \E j \in 1..(i - 1) :
         Acks(e)[j].type = "fileCreated" /\ Acks(e)[j].path = Resolved(ms[i])

\* the acknowledgements of e that report a success
Successes(e) == SelectSeq(Acks(e), LAMBDA a : a.type \in {"fileCreated", "fileModified"})

\* C12: in an open workspace each validated match is answered by one
\* operation: a modifyFile, described as "Updated by AI", if a file is at
\* the resolved path, and a createFile if none is; there is one write or
\* edit per operation that succeeded
C12_ProbeThenOneOperation ==
    \A r \in AllReplies :
        (/\ hist # <<>>
         /\ ExecChat(Last, r)
         /\ workspaceFolders = <<Root>>)
        => /\ Len(Acks(Last)) = Len(ValidMatches(r))
           /\ \A i \in 1..Len(ValidMatches(r)) :
                IF ExistsAt(Last, ValidMatches(r), i)
                THEN ModifyAck(Acks(Last)[i], Resolved(ValidMatches(r)[i]))
                ELSE CreateAck(Acks(Last)[i], Resolved(ValidMatches(r)[i]))
           /\ Len(FileOps(Last.tr)) = Len(Successes(Last))
           /\ \A i \in 1..Len(Last.tr) :
                (Last.tr[i].op = "notify" /\ "description" \in DOMAIN Last.tr[i])
                => Last.tr[i].description = UpdatedByAI

\* the two blocks naming foo.js, which did not exist: the first match
\* created it and the second modified it
C12_Witness ==
    /\ hist # <<>>
    /\ ExecChat(Last, ReplyTwo)
    /\ workspaceFolders = <<Root>>
    /\ PathFoo \notin DOMAIN Last.pre.fs
    /\ Len(Acks(Last)) = 4
    /\ Acks(Last)[1].type = "fileCreated" /\ Acks(Last)[1].path = PathFoo
    /\ Acks(Last)[2].type = "fileModified" /\ Acks(Last)[2].path = PathFoo
    /\ fs[PathFoo] = TextY

\* C13: a response without a matching block, prose or a fenced block that
\* names no file, leads to no file operation and no acknowledgement: the one
\* message sent is the chat message, it reports filesProcessed = false, and
\* no file, document or snapshot has changed
C13_NoBlockNoOperation ==
    \A r \in {ReplyProse, ReplyBare} :
        (hist # <<>> /\ ExecChat(Last, r))
        => /\ MatchesOf(r) = <<>>
           /\ SentOne(Last, "chat")
           /\ Sent(Last.tr)[1].filesProcessed = "false"
           /\ NoEffect(Last)
           /\ Untouched

\* the fenced block without a file name was the answer in an open workspace
C13_Witness ==
    /\ hist # <<>>
    /\ ExecChat(Last, ReplyBare)
    /\ workspaceFolders = <<Root>>
    /\ SentOne(Last, "chat")

\* C14: in an open workspace every validated match is answered in its
\* turn, by the success message or the error of its operation, whatever
\* became of the matches before it; a match whose file the file system
\* refuses to write is answered with an error, and the matches after it, of
\* the same pattern and of the later ones, are answered all the same
C14_FailureDoesNotStop ==
    \A r \in AllReplies :
        (/\ hist # <<>>
         /\ ExecChat(Last, r)
         /\ workspaceFolders = <<Root>>)
        => \A i \in 1..Len(ValidMatches(r)) :
            /\ i <= Len(Acks(Last))
            /\ \/ ModifyAck(Acks(Last)[i], Resolved(ValidMatches(r)[i]))
               \/ CreateAck(Acks(Last)[i], Resolved(ValidMatches(r)[i]))
            /\ (/\ Resolved(ValidMatches(r)[i]) \in faults.noWrite
                /\ Resolved(ValidMatches(r)[i]) \notin DOMAIN Last.pre.docs)
               => Acks(Last)[i].type = "error"

\* the writes of foo.js were refused: both blocks of the first pattern were
\* answered with an error, and the matches of the second pattern were applied
C14_Witness ==
    /\ hist # <<>>
    /\ ExecChat(Last, ReplyTwo)
    /\ workspaceFolders = <<Root>>
    /\ faults.noWrite = {PathFoo}
    /\ Len(Acks(Last)) = 4
    /\ Acks(Last)[1].type = "error" /\ Acks(Last)[1].about = PathFoo
    /\ Acks(Last)[2].type = "error" /\ Acks(Last)[2].about = PathFoo
    /\ Acks(Last)[3].type \in {"fileCreated", "fileModified"}
    /\ Acks(Last)[4].type = "fileModified"
    /\ PathFoo \notin DOMAIN fs

\* C15: with no workspace folder open, a response with a validated match
\* is answered with one error acknowledgement, that of the missing folder,
\* and then the chat message: no later match is handled, and no file,
\* document or snapshot has changed
C15_NoFolderStops ==
    \A r \in AllReplies :
        (/\ hist # <<>>
         /\ ExecChat(Last, r)
         /\ ValidMatches(r) # <<>>
         /\ workspaceFolders = <<>>)
        => /\ Acks(Last) = <<ErrorMsg("No workspace folder is open", <<>>)>>
           /\ Len(Sent(Last.tr)) = 2
           /\ NoEffect(Last)
           /\ Untouched

\* the response with four matches was the answer while no folder was open
C15_Witness ==
    /\ hist # <<>>
    /\ ExecChat(Last, ReplyTwo)
    /\ Len(ValidMatches(ReplyTwo)) = 4
    /\ workspaceFolders = <<>>
    /\ Len(Acks(Last)) = 1
    /\ Acks(Last)[1].type = "error"

\* a is the acknowledgement of a dispatched operation: what modifyFile or
\* createFile sends, and not the error of the missing workspace folder
DispatchAck(a) ==
    \/ a.type \in {"fileCreated", "fileModified"}
    \/ a.type = "error" /\ a.message # "No workspace folder is open"

\* C16: the chat message of an execute-mode chat reports filesProcessed =
\* true if and only if the extraction dispatched at least one operation,
\* whether the operation succeeded or not
C16_FlagIffDispatched ==
    \A r \in AllReplies :
        (hist # <<>> /\ ExecChat(Last, r))
        => /\ Sent(Last.tr) # <<>>
           /\ Sent(Last.tr)[Len(Sent(Last.tr))].type = "chat"
           /\ Sent(Last.tr)[Len(Sent(Last.tr))].filesProcessed = "true"
              <=> \E i \in 1..Len(Acks(Last)) : DispatchAck(Acks(Last)[i])

\* the flag is true after an extraction whose first operation failed
C16_Witness ==
    /\ hist # <<>>
    /\ ExecChat(Last, ReplyBlock)
    /\ faults.noWrite = {PathA}
    /\ Len(Acks(Last)) = 2
    /\ Acks(Last)[1].type = "error"
    /\ DispatchAck(Acks(Last)[1])
    /\ Sent(Last.tr)[3].filesProcessed = "true"

(***************************************************************************)
(* Handlers in flight together.                                            *)
(***************************************************************************)
\* C17: once a handler has started while another was suspended at an await,
\* no step of either changes a baseline that the snapshot store holds: the
\* baseline of a path is the one written first, and a later write of it
\* changes nothing
C17_FirstWriteWins ==
    [][Len(running') >= 2
       => \A p \in DOMAIN originalFileContents :
            /\ p \in DOMAIN originalFileContents'
            /\ originalFileContents'[p] = originalFileContents[p]]_vars

\* the content of a path as the handlers see it: the text of the open
\* document, else the file on disk
CurrentContent(p) == IF p \in DOMAIN docs THEN docs[p] ELSE fs[p]

\* the entries of hist in which a handler wrote or edited
Writes == {k \in DOMAIN hist : FileOps(hist[k].tr) # <<>>}

\* every handler of the episode is a modifyFile of path p and has returned,
\* and hist holds the steps of the episode
ModifiesDone(p) ==
    /\ Len(running) >= 2
    /\ \A i \in DOMAIN running :
         /\ running[i].msg.type = "modifyFile"
         /\ running[i].msg.filePath = p
         /\ running[i].pc = "done"
    /\ hist # <<>>
    /\ "id" \in DOMAIN hist[1]

\* C18: when modifyFile requests for one existing path were in flight
\* together, each is applied once and acknowledged with fileModified, none
\* with an error, and the content of the path at the end is the content of
\* the request whose write or edit came last
C18_LastWriteWins ==
    \A p \in reqPaths :
        (ModifiesDone(p) /\ p \in DOMAIN hist[1].pre.fs)
        => /\ \A i \in DOMAIN running :
                /\ \E k \in DOMAIN hist :
                     /\ hist[k].id = i
                     /\ SentOne(hist[k], "fileModified")
                     /\ Sent(hist[k].tr)[1].path = p
                /\ Cardinality({k \in Writes : hist[k].id = i}) = 1
           /\ \A k \in DOMAIN hist :
                \A j \in 1..Len(Sent(hist[k].tr)) : Sent(hist[k].tr)[j].type # "error"
           /\ \E k \in Writes :
                /\ \A j \in Writes : j <= k
                /\ CurrentContent(p) = hist[k].msg.content

\* two modifyFile requests with different contents overlapped, and the one
\* that arrived first wrote last
C18_Witness ==
    /\ ModifiesDone(PathA)
    /\ Len(running) = 2
    /\ running[1].msg.content # running[2].msg.content
    /\ CurrentContent(PathA) = running[1].msg.content
    /\ hist[Len(hist)].id = 1
    /\ PathA \notin DOMAIN docs

(***************************************************************************)
(* The baseline of a diff.                                                 *)
(***************************************************************************)
\* C19: get-diff on a path for which the snapshot store has no entry is
\* answered with one error, that of the missing original content, and no
\* diff; no file, document or snapshot has changed
C19_DiffWithoutBaselineFails ==
    (/\ hist # <<>>
     /\ IsReq(Last, "getDiff")
     /\ Last.msg.filePath \notin DOMAIN Last.pre.snap)
    => /\ SentOne(Last, "error")
       /\ Sent(Last.tr)[1].message = "Error generating diff: No original content stored"
       /\ Sent(Last.tr)[1].about = Last.msg.filePath
       /\ NoEffect(Last)
       /\ Untouched

\* get-diff was asked for a file that exists and is open, and was never
\* read or modified through the extension
C19_Witness ==
    /\ hist # <<>>
    /\ IsReq(Last, "getDiff")
    /\ Last.msg.filePath \notin DOMAIN Last.pre.snap
    /\ Last.msg.filePath \in DOMAIN fs
    /\ Last.msg.filePath \in DOMAIN docs
    /\ SentOne(Last, "error")

\* C20: modify-file on an existing file without a stored snapshot stores
\* the content from before the modification, the text of the open document
\* or else the file on disk, and not the new content; if the file cannot be
\* read nothing is stored, and the modification is applied and acknowledged
\* with fileModified all the same
C20_SnapshotBeforeWrite ==
    (/\ hist # <<>>
     /\ IsReq(Last, "modifyFile")
     /\ Last.msg.filePath \in DOMAIN Last.pre.fs
     /\ Last.msg.filePath \notin DOMAIN Last.pre.snap)
    => /\ IF Last.msg.filePath \in DOMAIN Last.pre.docs
          THEN /\ Last.msg.filePath \in DOMAIN originalFileContents
               /\ originalFileContents[Last.msg.filePath] = Last.pre.docs[Last.msg.filePath]
          ELSE IF Last.msg.filePath \notin faults.noRead
          THEN /\ Last.msg.filePath \in DOMAIN originalFileContents
               /\ originalFileContents[Last.msg.filePath] = Last.pre.fs[Last.msg.filePath]
          ELSE Last.msg.filePath \notin DOMAIN originalFileContents
       /\ (Last.msg.filePath \in DOMAIN Last.pre.docs
           \/ Last.msg.filePath \notin faults.noWrite)
          => /\ SentOne(Last, "fileModified")
             /\ Len(FileOps(Last.tr)) = 1
             /\ CurrentContent(Last.msg.filePath) = Last.msg.content

\* the original content of a closed file could not be read: nothing was
\* stored, the file was written and the modification acknowledged
C20_Witness ==
    /\ hist # <<>>
    /\ IsReq(Last, "modifyFile")
    /\ Last.msg.filePath \in faults.noRead
    /\ Last.msg.filePath \in DOMAIN Last.pre.fs
    /\ Last.msg.filePath \notin DOMAIN Last.pre.docs
    /\ Last.msg.filePath \notin DOMAIN Last.pre.snap
    /\ Last.msg.filePath \notin DOMAIN originalFileContents
    /\ SentOne(Last, "fileModified")
    /\ fs[Last.msg.filePath] = Last.msg.content
    /\ Last.msg.content # Last.pre.fs[Last.msg.filePath]

(***************************************************************************)
(* modifyFile and createFile: the write path and the directories.          *)
(***************************************************************************)
\* C21: an acknowledged modify-file takes one write path: with the path open
\* as a document, one edit that replaces the whole text and no write to disk;
\* with the path not open, one write of the file and no edit.  A
\* get-file-content for the path that follows is answered with the new
\* content
C21_OneWritePath ==
    /\ (/\ hist # <<>>
        /\ IsReq(Last, "modifyFile")
        /\ SentOne(Last, "fileModified"))
       => /\ Len(FileOps(Last.tr)) = 1
          /\ FileOps(Last.tr)[1].path = Last.msg.filePath
          /\ FileOps(Last.tr)[1].content = Last.msg.content
          /\ IF Last.msg.filePath \in DOMAIN Last.pre.docs
             THEN /\ FileOps(Last.tr)[1].op = "applyEdit"
                  /\ docs[Last.msg.filePath] = Last.msg.content
                  /\ fs = Last.pre.fs
             ELSE /\ FileOps(Last.tr)[1].op = "writeFile"
                  /\ fs[Last.msg.filePath] = Last.msg.content
                  /\ docs = Last.pre.docs
    /\ (/\ Len(hist) >= 2
        /\ IsReq(Back(1), "modifyFile") /\ SentOne(Back(1), "fileModified")
        /\ IsReq(Last, "getFileContent")
        /\ Last.msg.filePath = Back(1).msg.filePath)
       => /\ SentOne(Last, "fileContent")
          /\ Sent(Last.tr)[1].content = Back(1).msg.content

\* an open document whose text differs from the disk was modified and then
\* read: the disk still holds the old content
C21_Witness ==
    /\ Len(hist) >= 2
    /\ IsReq(Back(1), "modifyFile") /\ SentOne(Back(1), "fileModified")
    /\ Back(1).msg.filePath \in DOMAIN Back(1).pre.docs
    /\ Back(1).msg.content # Back(1).pre.docs[Back(1).msg.filePath]
    /\ IsReq(Last, "getFileContent")
    /\ Last.msg.filePath = Back(1).msg.filePath
    /\ Sent(Last.tr)[1].content = Back(1).msg.content
    /\ fs[Last.msg.filePath] # Back(1).msg.content

\* the directories that exist when step k of the handler of e runs: those
\* from before the request and those its earlier steps made
DirsBefore(e, k) ==
    e.pre.dirs \cup {e.tr[j].path : j \in {i \in 1..(k - 1) : e.tr[i].op = "createDirectory"}}

\* the steps of the handler of e that made a directory
Mkdirs(e) == {k \in DOMAIN e.tr : e.tr[k].op = "createDirectory"}

\* C22: create-file makes the missing ancestor directories of the path from
\* the root to the leaf, none before its parent exists, and writes the file
\* only when every ancestor directory exists
C22_DirectoriesRootToLeaf ==
    (hist # <<>> /\ IsReq(Last, "createFile"))
    => /\ \A k \in Mkdirs(Last) :
            /\ Last.tr[k].path \in Ancestors(Last.msg.filePath) \ Last.pre.dirs
            /\ Ancestors(Last.tr[k].path) \subseteq DirsBefore(Last, k)
            /\ \A j \in Mkdirs(Last) :
                    j < k => Len(Last.tr[j].path) < Len(Last.tr[k].path)
       /\ \A k \in DOMAIN Last.tr :
            Last.tr[k].op = "writeFile"
            => /\ Last.tr[k].path = Last.msg.filePath
               /\ Ancestors(Last.msg.filePath) \subseteq DirsBefore(Last, k)
       /\ SentOne(Last, "fileCreated")
          => /\ Ancestors(Last.msg.filePath) \subseteq dirs
             /\ \A d \in Ancestors(Last.msg.filePath) \ Last.pre.dirs :
                    \E k \in Mkdirs(Last) : Last.tr[k].path = d

\* a file was created two directories below the ones that existed: both
\* were made, the upper one first, and then the file was written
C22_Witness ==
    /\ hist # <<>>
    /\ IsReq(Last, "createFile")
    /\ SentOne(Last, "fileCreated")
    /\ Len(Last.tr) >= 3
    /\ Last.tr[1].op = "createDirectory"
    /\ Last.tr[2].op = "createDirectory"
    /\ Last.tr[1].path = Dirname(Last.tr[2].path)
    /\ Last.tr[2].path = Dirname(Last.msg.filePath)
    /\ Last.tr[3].op = "writeFile"
    /\ Last.tr[1].path \notin Last.pre.dirs
    /\ Last.msg.filePath \in DOMAIN fs

\* C23: a directory that cannot be made during create-file produces no error
\* message: a create-file of a path where nothing exists and whose write the
\* file system does not refuse is answered with fileCreated
C23_MkdirFailureSwallowed ==
    (/\ hist # <<>>
     /\ IsReq(Last, "createFile")
     /\ Last.msg.filePath \notin DOMAIN Last.pre.fs
     /\ WriteOk([fs |-> Last.pre.fs, dirs |-> Last.pre.dirs], Last.msg.filePath))
    => /\ SentOne(Last, "fileCreated")
       /\ Last.msg.filePath \in DOMAIN fs

(***************************************************************************)
(* renderPreview and the live-reload process.                              *)
(***************************************************************************)
\* the handler of e can read the content of its path: the document is open
\* or the file exists
Readable(e) ==
    \/ e.msg.filePath \in DOMAIN e.pre.docs
    \/ e.msg.filePath \in DOMAIN e.pre.fs /\ e.msg.filePath \notin faults.noRead

\* the extension of the path of e, in lower case
LowerExt(e) == ToLowerCase(Extname(e.msg.filePath))

DocumentExts == {<<".", "h", "t", "m", "l">>, <<".", "c", "s", "s">>,
                 <<".", "j", "s", "o", "n">>}

\* C24: render-preview of a readable file whose extension is .html, .css or
\* .json in any letter case sends exactly one preview message with
\* previewType html; with an extension that is none of these nor .tsx, .jsx,
\* .ts or .js it sends an error message and no preview
C24_DispatchByExtension ==
    (hist # <<>> /\ IsReq(Last, "renderPreview") /\ Readable(Last))
    => /\ LowerExt(Last) \in DocumentExts
          => /\ SentOne(Last, "preview")
             /\ Sent(Last.tr)[1].previewType = "html"
             /\ Sent(Last.tr)[1].path = Last.msg.filePath
       /\ LowerExt(Last) \notin DocumentExts \cup ScriptExts
          => /\ SentOne(Last, "error")
             /\ Sent(Last.tr)[1].message = "Preview not supported for file type"

\* C25: render-preview of a readable .tsx, .jsx, .ts or .js file leaves the
\* live-reload process running and sends one preview message whose content
\* is the shell with the iframe at the address of that process
C25_ScriptPreviewShell ==
    (/\ hist # <<>>
     /\ IsReq(Last, "renderPreview")
     /\ Readable(Last)
     /\ LowerExt(Last) \in ScriptExts)
    => /\ Sent(Last.tr) # <<>>
       /\ Sent(Last.tr)[Len(Sent(Last.tr))] =
              Preview(Last.msg.filePath, ShellHead \o DevServerPort \o ShellTail)
       /\ \A i \in 1..(Len(Sent(Last.tr)) - 1) : Sent(Last.tr)[i].type = "devServerStarted"
       /\ devProcs >= 1

Deactivated == hist # <<>> /\ Last.msg.json = "none" /\ Last.msg.type = "deactivate"

C28_JsonAlwaysPreviewed ==
    (/\ hist # <<>>
     /\ IsReq(Last, "renderPreview")
     /\ Readable(Last)
     /\ LowerExt(Last) = <<".", "j", "s", "o", "n">>)
    => /\ SentOne(Last, "preview")
       /\ Head(Sent(Last.tr)[1].content) =
              IF JSONParseOk(IF Last.msg.filePath \in DOMAIN Last.pre.docs
                             THEN Last.pre.docs[Last.msg.filePath]
                             ELSE Last.pre.fs[Last.msg.filePath])
              THEN Head(JsonHead) ELSE Head(WarnHead)

\* the entities escapeHtml writes
Entities == {<<"&", "a", "m", "p", ";">>, <<"&", "l", "t", ";">>, <<"&", "g", "t", ";">>,
             <<"&", "q", "u", "o", "t", ";">>, <<"&", "#", "0", "3", "9", ";">>}

\* one of the entities starts at position i of v
EntityAt(v, i) ==
    \E ent \in Entities :
        /\ i + Len(ent) - 1 <= Len(v)
        /\ SubSeq(v, i, i + Len(ent) - 1) = ent

\* C29: for every text t, escapeHtml(t) returns a text without <, >, " and
\* ', in which every & is the first character of one of the entities
C29_EscapeHtmlLeavesNoMarkup ==
    (hist # <<>> /\ Last.msg.json = "none" /\ Last.msg.type = "escapeHtml")
    => /\ ~Last.result.threw
       /\ \A i \in DOMAIN Last.result.value :
            /\ Last.result.value[i] \notin {"<", ">", "\"", "'"}
            /\ Last.result.value[i] = "&" => EntityAt(Last.result.value, i)

(***************************************************************************)
(* The failure of the model call.                                          *)
(***************************************************************************)
\* e is the entry of a chat whose model call threw
FailedChat(e) == IsReq(e, "chat") /\ ~e.msg.completion.ok

\* C30: a chat whose model call fails is answered with exactly one error
\* message and no chat message, nothing is written, edited or stored, the
\* connection stays open, and the message that follows is handled as usual
C30_ModelFailureIsOneError ==
    /\ (hist # <<>> /\ FailedChat(Last))
       => /\ SentOne(Last, "error")
          /\ Sent(Last.tr)[1].message = "Error processing chat message"
          /\ NoEffect(Last)
          /\ Untouched
          /\ wsOpen
    /\ (Len(hist) >= 2 /\ FailedChat(Back(1)))
       => /\ IsReq(Last, "getFiles") => SentOne(Last, "workspaceInfo")
          /\ (IsReq(Last, "chat") /\ Last.msg.completion.ok) => SentOne(Last, "chat")

\* the model call of an execute-mode chat failed, and the getFiles sent
\* after it was answered with the workspace
C30_Witness ==
    /\ Len(hist) >= 2
    /\ FailedChat(Back(1))
    /\ Back(1).msg.executeMode = "true"
    /\ SentOne(Back(1), "error")
    /\ IsReq(Last, "getFiles")
    /\ SentOne(Last, "workspaceInfo")

(***************************************************************************)
(* The order of the extraction, duplicates, and what the flag reports.     *)
(***************************************************************************)
\* a is what the operation dispatched for match m sends
AckOf(a, m) == ModifyAck(a, Resolved(m)) \/ CreateAck(a, Resolved(m))

\* C31: in an open workspace the operations are dispatched pattern by
\* pattern: those of the comment-marker pattern before those of the
\* filename-fence pattern, those before the ones of the heading pattern,
\* and the matches of one pattern in the order of their place in the text
C31_PatternsInOrder ==
    \A r \in ParseReplies :
        (/\ hist # <<>>
         /\ ExecChat(Last, r)
         /\ workspaceFolders = <<Root>>)
        => /\ Len(Acks(Last)) = Len(ValidMatches(r))
           /\ \A i \in 1..Len(ValidMatches(r)) : AckOf(Acks(Last)[i], ValidMatches(r)[i])
           /\ \A i, j \in 1..Len(ValidMatches(r)) :
                i < j => \/ ValidMatches(r)[i].pattern < ValidMatches(r)[j].pattern
                         \/ /\ ValidMatches(r)[i].pattern = ValidMatches(r)[j].pattern
                            /\ ValidMatches(r)[i].index < ValidMatches(r)[j].index

\* the response with the heading first and the comment-marker block last:
\* a.js was handled first, then the two fences, then the heading
C31_Witness ==
    /\ hist # <<>>
    /\ ExecChat(Last, ReplyMixed)
    /\ workspaceFolders = <<Root>>
    /\ faults = NoFaults
    /\ Len(Acks(Last)) = 4
    /\ Acks(Last)[1].type = "fileModified" /\ Acks(Last)[1].path = PathA
    /\ Acks(Last)[2].type = "fileCreated"
    /\ Acks(Last)[2].path = PathJoin(Root, <<"b", ".", "j", "s">>)
    /\ Acks(Last)[3].type = "fileCreated"
    /\ Acks(Last)[4].type = "fileCreated"
    /\ Acks(Last)[4].path = PathJoin(Root, <<"h", ".", "j", "s">>)

\* the matches of ms before the i-th that name the path of the i-th
Earlier(ms, i) == {j \in 1..(i - 1) : Resolved(ms[j]) = Resolved(ms[i])}

\* the last match of ms that names the path of the i-th
LastOf(ms, i) ==
    CHOOSE j \in DOMAIN ms :
        /\ Resolved(ms[j]) = Resolved(ms[i])
        /\ \A k \in DOMAIN ms : Resolved(ms[k]) = Resolved(ms[i]) => k <= j

ContentBefore(e, p) == IF p \in DOMAIN e.pre.docs THEN e.pre.docs[p] ELSE e.pre.fs[p]

\* C33: for an existing path with content c0 and no stored snapshot, a
\* modify-file(p, c1) acknowledged with fileModified followed by get-diff(p)
\* is answered with one diff message, originalContent = c0 and
\* currentContent = c1
C33_DiffAfterFirstModify ==
    (/\ Len(hist) >= 2
     /\ IsReq(Back(1), "modifyFile") /\ SentOne(Back(1), "fileModified")
     /\ Back(1).msg.filePath \in DOMAIN Back(1).pre.fs
     /\ Back(1).msg.filePath \notin DOMAIN Back(1).pre.snap
     /\ IsReq(Last, "getDiff")
     /\ Last.msg.filePath = Back(1).msg.filePath)
    => /\ SentOne(Last, "diff")
       /\ Sent(Last.tr)[1].originalContent = ContentBefore(Back(1), Last.msg.filePath)
       /\ Sent(Last.tr)[1].currentContent = Back(1).msg.content

\* C34: get-diff on a path with a captured snapshot whose current content
\* can be read (an open document, or a file on disk whose read is not
\* refused) is answered with one diff message whose originalContent is the
\* snapshot, whatever the snapshot is, the empty text included
C34_DiffForEveryBaseline ==
    (/\ hist # <<>>
     /\ IsReq(Last, "getDiff")
     /\ Last.msg.filePath \in DOMAIN Last.pre.snap
     /\ \/ Last.msg.filePath \in DOMAIN Last.pre.docs
        \/ /\ Last.msg.filePath \in DOMAIN Last.pre.fs
           /\ Last.msg.filePath \notin faults.noRead)
    => /\ SentOne(Last, "diff")
       /\ Sent(Last.tr)[1].originalContent = Last.pre.snap[Last.msg.filePath]

(***************************************************************************)
(* What the chat message reports.                                          *)
(***************************************************************************)
\* C35: a chat message that reports filesProcessed = true comes after at
\* least one fileCreated or fileModified of the same chat request; the flag
\* is not true when every dispatched operation ended in an error
C35_FlagMeansFileWritten ==
    (/\ hist # <<>>
     /\ IsReq(Last, "chat")
     /\ Sent(Last.tr) # <<>>
     /\ Sent(Last.tr)[Len(Sent(Last.tr))].type = "chat"
     /\ Sent(Last.tr)[Len(Sent(Last.tr))].filesProcessed = "true")
    => Successes(Last) # <<>>

\* C36: every chat message sent for a chat request carries filesProcessed
\* as a boolean, and the one of an execute-mode chat answered with no
\* workspace folder open carries false
C36_FlagAlwaysBoolean ==
    (hist # <<>> /\ IsReq(Last, "chat"))
    => \A i \in 1..Len(Sent(Last.tr)) :
          Sent(Last.tr)[i].type = "chat"
          => /\ Sent(Last.tr)[i].filesProcessed \in {"true", "false"}
             /\ workspaceFolders = <<>> => Sent(Last.tr)[i].filesProcessed = "false"

(***************************************************************************)
(* Requests that end in an error.                                          *)
(***************************************************************************)
FileRequests == {"getFileContent", "modifyFile", "createFile", "getDiff", "renderPreview"}

\* C37: a get-file-content, modify-file, create-file, get-diff or
\* render-preview request answered with an error leaves the files and their
\* contents, the directories and the snapshot store as they were before it
C37_ErrorLeavesStateUnchanged ==
    (/\ hist # <<>>
     /\ Last.msg.json = "object"
     /\ Last.msg.type \in FileRequests
     /\ SentOne(Last, "error"))
    => /\ fs = Last.pre.fs
       /\ dirs = Last.pre.dirs
       /\ originalFileContents = Last.pre.snap

(***************************************************************************)
(* The HTML form of the system message.                                    *)
(***************************************************************************)
\* C38: for the response with the one block ```html <!-- index.html -->,
\* a newline, BODY, a newline and the closing fence, in an open workspace,
\* an operation on index.html under the root is dispatched and what it
\* writes is BODY trimmed, without the --> of the path marker
C38_HtmlMarkerNotInContent ==
    (/\ hist # <<>>
     /\ ExecChat(Last, ReplyHtml)
     /\ workspaceFolders = <<Root>>)
    => /\ \E i \in 1..Len(FileOps(Last.tr)) :
            FileOps(Last.tr)[i].path = PathJoin(Root, IndexHtmlName)
       /\ \A i \in 1..Len(FileOps(Last.tr)) :
            FileOps(Last.tr)[i].path = PathJoin(Root, IndexHtmlName)
            => FileOps(Last.tr)[i].content = Trim(HtmlBody)

(***************************************************************************)
(* The acknowledgement follows the write.                                  *)
(***************************************************************************)
\* the k-th effect of trace tr is the sending of a message of one of types
SendsAt(tr, k, types) == tr[k].op = "send" /\ tr[k].msg.type \in types

\* the k-th effect of tr is the write or the edit of path p
WritesAt(tr, k, p) == tr[k].op \in {"writeFile", "applyEdit"} /\ tr[k].path = p

\* the errors that modifyFile and createFile send
OperationErrors ==
    {"Error modifying file: File does not exist",
     "Error modifying file: Failed to apply edit",
     "Error modifying file: write failed",
     "Error creating file: createDirectory failed",
     "Error creating file: write failed"}

\* the k-th effect of tr is the first message sent after the write or edit
\* of path p at j
AcksWrite(tr, j, k, p) ==
    /\ j < k
    /\ WritesAt(tr, j, p)
    /\ \A l \in (j + 1)..(k - 1) : tr[l].op = "notify"

\* C39: a fileCreated or fileModified message carries success = true and is
\* the first thing sent after the write or the edit of its path has been
\* done, a fileCreated after a write to disk; an error of modifyFile or
\* createFile is sent with no write or edit done since the message before
\* it, so that a failed operation writes nothing and sends no fileCreated
\* or fileModified
C39_AckAfterWrite ==
    hist # <<>> =>
        \A k \in 1..Len(Last.tr) :
            /\ SendsAt(Last.tr, k, {"fileCreated", "fileModified"})
               => /\ Last.tr[k].msg.success = TRUE
                  /\ \E j \in 1..(k - 1) : AcksWrite(Last.tr, j, k, Last.tr[k].msg.path)
                  /\ Last.tr[k].msg.type = "fileCreated"
                     => \E j \in 1..(k - 1) :
                           /\ AcksWrite(Last.tr, j, k, Last.tr[k].msg.path)
                           /\ Last.tr[j].op = "writeFile"
            /\ (SendsAt(Last.tr, k, {"error"}) /\ Last.tr[k].msg.message \in OperationErrors)
               => \A j \in 1..(k - 1) :
                     Last.tr[j].op \in {"writeFile", "applyEdit"}
                     => \E l \in (j + 1)..(k - 1) : Last.tr[l].op = "send"
            /\ (IsReq(Last, "modifyFile") \/ IsReq(Last, "createFile"))
               => Len(Sent(Last.tr)) = 1

\* the write of d.js was refused after its directories had been made: the
\* one message is the error, nothing was written and the file does not exist
C39_Witness ==
    /\ hist # <<>>
    /\ IsReq(Last, "createFile")
    /\ Last.msg.filePath = PathD
    /\ faults.noWrite = {PathD}
    /\ SentOne(Last, "error")
    /\ Sent(Last.tr)[1].message = "Error creating file: write failed"
    /\ Mkdirs(Last) # {}
    /\ FileOps(Last.tr) = <<>>
    /\ PathD \notin DOMAIN fs

====
